---- MODULE Spec2Model ----
(***************************************************************************)
(* mcp-xray: the data-loading pipeline (mcp_xray.io).  A DataReader maps a *)
(* location string to parsed, validated data through a scheme->fetcher and *)
(* an extension->reader registry.  Strings whose characters matter         *)
(* (locations, schemes, extensions) are sequences of one-character         *)
(* strings; file contents and parsed values are opaque strings.            *)
(***************************************************************************)
EXTENDS Integers, Sequences, FiniteSets, TLC

\* ------------------------------------------------------------------ str
\* str.lower() on the letters that occur in the locations below
lower_char(c) ==
    CASE c = "F" -> "f" [] c = "H" -> "h" [] c = "J" -> "j" [] c = "N" -> "n"
      [] c = "O" -> "o" [] c = "P" -> "p" [] c = "S" -> "s" [] c = "T" -> "t"
      [] c = "X" -> "x" [] c = "Y" -> "y" [] c = "Z" -> "z"
      [] OTHER -> c

lower(s) == [i \in 1..Len(s) |-> lower_char(s[i])]

\* s[i:] and s[:i] for 1-based positions: the part from / up to position i
From(s, i) == SubSeq(s, i, Len(s))
Upto(s, i) == SubSeq(s, 1, i)

\* str.find / str.rfind: position of the first / last c in s, 0 when absent
find(s, c) ==
    IF \E i \in 1..Len(s) : s[i] = c
    THEN CHOOSE i \in 1..Len(s) : s[i] = c /\ \A j \in 1..(i - 1) : s[j] # c
    ELSE 0

rfind(s, c) ==
    IF \E i \in 1..Len(s) : s[i] = c
    THEN CHOOSE i \in 1..Len(s) : s[i] = c /\ \A j \in (i + 1)..Len(s) : s[j] # c
    ELSE 0

\* position of the first character of s at or after position lo that is in cs
find_any(s, cs, lo) ==
    IF \E i \in lo..Len(s) : s[i] \in cs
    THEN CHOOSE i \in lo..Len(s) : s[i] \in cs /\ \A j \in lo..(i - 1) : s[j] \notin cs
    ELSE 0

\* s.split(c, 1) at position k of c: what is before it and what is after it
before(s, k) == IF k = 0 THEN s ELSE Upto(s, k - 1)
after(s, k) == IF k = 0 THEN <<>> ELSE From(s, k + 1)

letters ==
    {"a", "b", "c", "d", "e", "f", "h", "i", "j", "l", "m", "n", "o", "p", "s",
     "t", "v", "x", "y", "z", "F", "H", "J", "N", "O", "P", "S", "T", "X", "Y", "Z"}

digits == {"0", "1", "8"}

\* urllib.parse.scheme_chars
scheme_chars == letters \cup digits \cup {"+", "-", "."}

\* urlsplit: url[:i] is a scheme when i is the position of the first ":"
has_scheme(url, i) ==
    /\ i > 1
    /\ url[1] \in letters
    /\ \A k \in 1..(i - 1) : url[k] \in scheme_chars

\* urlsplit: the "//" that starts a netloc, which ends before the first of "/?#"
has_netloc(url) == Len(url) >= 2 /\ url[1] = "/" /\ url[2] = "/"

netloc_end(url) == IF has_netloc(url) THEN find_any(url, {"/", "?", "#"}, 3) ELSE 0

netloc_of(url, e) ==
    IF ~has_netloc(url) THEN <<>>
    ELSE IF e = 0 THEN From(url, 3)
    ELSE SubSeq(url, 3, e - 1)

after_netloc(url, e) ==
    IF ~has_netloc(url) THEN url
    ELSE IF e = 0 THEN <<>>
    ELSE From(url, e)

split_query(scheme, netloc, url, fragment) ==
    [scheme |-> scheme, netloc |-> netloc, path |-> before(url, find(url, "?")),
     query |-> after(url, find(url, "?")), fragment |-> fragment]

split_fragment(scheme, netloc, url) ==
    split_query(scheme, netloc, before(url, find(url, "#")), after(url, find(url, "#")))

split_netloc(scheme, url) ==
    split_fragment(scheme, netloc_of(url, netloc_end(url)),
                   after_netloc(url, netloc_end(url)))

split_scheme(url, i) ==
    split_netloc(IF has_scheme(url, i) THEN lower(Upto(url, i - 1)) ELSE <<>>,
                 IF has_scheme(url, i) THEN From(url, i + 1) ELSE url)

\* urllib.parse.urlparse(url): scheme (lower-cased), netloc, path, query, fragment
urlparse(url) == split_scheme(url, find(url, ":"))

\* pathlib: the components of a path string ("/"-separated, empty and "." dropped)
RECURSIVE parts(_)
parts(p) ==
    IF p = <<>> THEN <<>>
    ELSE IF before(p, find(p, "/")) \in {<<>>, <<".">>}
    THEN parts(after(p, find(p, "/")))
    ELSE <<before(p, find(p, "/"))>> \o parts(after(p, find(p, "/")))

last(ps) == IF ps = <<>> THEN <<>> ELSE ps[Len(ps)]

\* pathlib.PurePath.name: the final component, "" when there is none
name(p) == last(parts(p))

\* the name's last dot and what follows it, unless the dot is the first or
\* the last character of the name
dot_suffix(n, i) == IF 1 < i /\ i < Len(n) THEN From(n, i) ELSE <<>>

suffix_of(n) == dot_suffix(n, rfind(n, "."))

\* pathlib.PurePath.suffix
suffix(p) == suffix_of(name(p))

\* ------------------------------------------------------------ strings
s_file == <<"f", "i", "l", "e">>
s_http == <<"h", "t", "t", "p">>
s_https == <<"h", "t", "t", "p", "s">>
s_ftp == <<"f", "t", "p">>
ext_json == <<".", "j", "s", "o", "n">>
ext_yaml == <<".", "y", "a", "m", "l">>
ext_yml == <<".", "y", "m", "l">>
ext_xyz == <<".", "x", "y", "z">>

\* the locations load_from and fetch are called with
loc_s_json == <<"s", ".", "j", "s", "o", "n">>
loc_s_JSON == <<"s", ".", "J", "S", "O", "N">>
loc_c_yaml == <<"c", ".", "y", "a", "m", "l">>
loc_c_yml == <<"c", ".", "y", "m", "l">>
loc_b_json == <<"b", ".", "j", "s", "o", "n">>
loc_d_json == <<"d", ".", "j", "s", "o", "n">>
loc_m_json == <<"m", ".", "j", "s", "o", "n">>
loc_a_xyz == <<"a", ".", "x", "y", "z">>
loc_a_XYZ == <<"a", ".", "X", "Y", "Z">>
loc_noext == <<"n", "o", "e", "x", "t">>
loc_r_json == <<"r", ".", "j", "s", "o", "n">>
loc_e_json == <<"e", ".", "j", "s", "o", "n">>
loc_t_json == <<"t", ".", "j", "s", "o", "n">>
loc_o_json == <<"o", ".", "j", "s", "o", "n">>
loc_hash == <<"n", "#", "b", ".", "j", "s", "o", "n">>
loc_colon == <<"x", ":", "s", ".", "j", "s", "o", "n">>
loc_colon_hash == <<"x", ":", "a", "#", "b", ".", "j", "s", "o", "n">>
loc_ftp == <<"f", "t", "p", ":", "/", "/", "h", "/", "y", ".", "j", "s", "o", "n">>
loc_FTP == <<"F", "T", "P", ":", "/", "/", "h", "/", "y", ".", "j", "s", "o", "n">>
loc_http == <<"h", "t", "t", "p", ":", "/", "/", "h", "/", "s", ".", "j", "s", "o", "n">>
loc_HTTP == <<"H", "T", "T", "P", ":", "/", "/", "h", "/", "s", ".", "J", "S", "O", "N">>
loc_https_query == <<"h", "t", "t", "p", "s", ":", "/", "/", "h", "/", "c", ".", "y", "a", "m", "l", "?", "v", ".", "j", "s", "o", "n">>
loc_http_badport == <<"h", "t", "t", "p", ":", "/", "/", "h", ":", "x", "/", "s", ".", "j", "s", "o", "n">>
loc_http_xyz == <<"h", "t", "t", "p", ":", "/", "/", "h", "/", "a", ".", "x", "y", "z">>
loc_http_fragment == <<"h", "t", "t", "p", ":", "/", "/", "h", "/", "c", ".", "y", "m", "l", "#", "x", ".", "j", "s", "o", "n">>
loc_abs_json == <<"/", "a", ".", "j", "s", "o", "n">>
loc_abs_xyz == <<"/", "a", ".", "x", "y", "z">>

\* the file URL of an absolute path
file_url(path) == <<"f", "i", "l", "e", ":", "/", "/">> \o path

Locations ==
    {loc_s_json, loc_s_JSON, loc_c_yaml, loc_c_yml, loc_b_json, loc_d_json,
     loc_m_json, loc_a_xyz, loc_a_XYZ, loc_noext, loc_hash, loc_colon,
     loc_colon_hash, loc_ftp, loc_FTP, loc_http, loc_HTTP, loc_https_query,
     loc_http_badport, loc_http_xyz, loc_r_json, loc_e_json, loc_t_json,
     loc_o_json, loc_http_fragment}

\* ------------------------------------------------- values and results
\* file contents and HTTP bodies
T_CFG_JSON == "{\"mcp_names\": {\"a\": \"b\"}}"
T_BADCFG_JSON == "{\"route_maps\": [5]}"
T_CFG_YAML == "mcp_names:\n  a: b"
T_ROUTES_JSON == "{\"route_maps\": [{\"methods\": [\"GET\"], \"mcp_type\": \"TOOL\"}]}"
T_EXTRA_JSON == "{\"mcp_names\": {\"a\": \"b\"}, \"extra\": 1}"
T_BADTYPE_JSON == "{\"route_maps\": [{\"methods\": [\"GET\"], \"mcp_type\": \"NOPE\"}]}"
T_NOROUTES_JSON == "{\"route_maps\": []}"
T_BROKEN == "{invalid json"
T_EMPTY == ""
T_CUSTOM == "custom content"
T_DEEP == "[[[[[[[[[[ ... 100000 opening brackets, none closed"

\* parsed values
V_CFG == "{'mcp_names': {'a': 'b'}}"
V_BADCFG == "{'route_maps': [5]}"
V_ROUTES == "{'route_maps': [{'methods': ['GET'], 'mcp_type': 'TOOL'}]}"
V_EXTRA == "{'mcp_names': {'a': 'b'}, 'extra': 1}"
V_BADTYPE == "{'route_maps': [{'methods': ['GET'], 'mcp_type': 'NOPE'}]}"
V_NOROUTES == "{'route_maps': []}"
V_NULL == "None"
V_STR == "'custom content'"
V_CUSTOM == "{'custom': True}"

\* the values of the fields mcp_names and route_maps
N_AB == "{'a': 'b'}"
R_INTS == "[5]"
R_DICTS == "[{'methods': ['GET'], 'mcp_type': 'TOOL'}]"
R_NOPE == "[{'methods': ['GET'], 'mcp_type': 'NOPE'}]"
R_EMPTY == "[]"
R_BUILT == "[RouteMap(methods=['GET'], mcp_type=MCPType.TOOL)]"

\* validated model instances
M_CFG == "MCPConfiguration(mcp_names={'a': 'b'}, route_maps=None)"
M_EMPTY == "MCPConfiguration(mcp_names=None, route_maps=None)"
M_NOROUTES == "MCPConfiguration(mcp_names=None, route_maps=[])"
M_ROUTES == "MCPConfiguration(mcp_names=None, route_maps=[RouteMap(methods=['GET'], mcp_type=MCPType.TOOL)])"

\* one step of a call: what was done (ev), by which class (cls), to what (arg)
Ev(ev, cls, arg) == [ev |-> ev, cls |-> cls, arg |-> arg]

\* an exception: its class, the fixed text its message starts with, the values
\* formatted into the message (location, extension, scheme), and the class of
\* the original exception it was raised from, whose text the message embeds
Error(kind, prefix, args, cause) ==
    [kind |-> kind, prefix |-> prefix, args |-> args, cause |-> cause]

NoError == Error("none", "", <<>>, "none")

\* how a call ends, with the steps it took
Return(trace, value) ==
    [trace |-> trace, status |-> "returned", value |-> value, error |-> NoError]

Raise(trace, error) ==
    [trace |-> trace, status |-> "raised", value |-> "", error |-> error]

\* the step a result was reached by, put in front of the steps it took
Step(ev, result) == [result EXCEPT !.trace = <<ev>> \o @]

\* ----------------------------------------------------------- filesystem
File(text) == [type |-> "file", text |-> text]
Dir == [type |-> "dir", text |-> ""]

RECURSIVE join(_)
join(ps) ==
    IF ps = <<>> THEN <<>>
    ELSE IF Len(ps) = 1 THEN ps[1]
    ELSE ps[1] \o <<"/">> \o join(Tail(ps))

\* str(pathlib.Path(location)): the path a location string denotes
Path(location) ==
    (IF location # <<>> /\ location[1] = "/" THEN <<"/">> ELSE <<>>)
        \o join(parts(location))

\* a faulty variant: Path.exists() in place of Path.is_file()
is_file_exists(files, path) == path \in DOMAIN files

\* Path.is_file(): the path references an existing regular file
is_file(files, path) == path \in DOMAIN files /\ files[path].type = "file"

\* Path.read_text(encoding="utf-8")
read_text(files, path) == files[path].text

\* ------------------------------------------------------------- fetchers
\* the exception classes httpx derives from httpx.HTTPError
httpx_HTTPError ==
    {"HTTPStatusError", "ConnectTimeout", "ConnectError", "UnsupportedProtocol"}

\* what the network does with one GET: a response, or a transport failure
Response(status, body) == [kind |-> "response", status |-> status, body |-> body]
NoNet == [kind |-> "none", status |-> 0, body |-> ""]

NetOutcomes ==
    {Response(200, T_CFG_JSON), Response(200, T_BROKEN), Response(301, ""),
     Response(404, ""), Response(500, ""),
     [kind |-> "ConnectTimeout", status |-> 0, body |-> ""],
     [kind |-> "ConnectError", status |-> 0, body |-> ""]}

\* httpx rejects a URL whose port is not a number (httpx.InvalidURL)
invalid_port(netloc, c) == c > 0 /\ \E k \in (c + 1)..Len(netloc) : netloc[k] \notin digits

\* the exception httpx raises for a URL before it sends anything: InvalidURL
\* for a malformed one, UnsupportedProtocol for one that is not http or https
httpx_url_error(parsed) ==
    IF invalid_port(parsed.netloc, rfind(parsed.netloc, ":")) THEN "InvalidURL"
    ELSE IF parsed.scheme \notin {s_http, s_https} THEN "UnsupportedProtocol"
    ELSE "none"

\* the request of a URL reaches the network
on_network(location) == httpx_url_error(urlparse(location)) = "none"

\* client.get(location) followed by response.raise_for_status(): the class of
\* the exception raised inside the with block, "none" when there is none
httpx_raised(url_error, net) ==
    IF url_error # "none" THEN url_error
    ELSE IF net.kind # "response" THEN net.kind
    ELSE IF net.status < 200 \/ net.status > 299 THEN "HTTPStatusError"
    ELSE "none"

httpx_get(location, net) == httpx_raised(httpx_url_error(urlparse(location)), net)

\* a faulty variant: the message names the normalised path, not the location given
FileContentFetcher_fetch_names_path(files, location) ==
    IF ~is_file(files, Path(location))
    THEN Raise(<<>>, Error("FileNotFoundError", "File does not exist: ",
                           <<Path(location)>>, "none"))
    ELSE Return(<<>>, read_text(files, Path(location)))

FileContentFetcher_fetch(files, location) ==
    IF ~is_file(files, Path(location))
    THEN Raise(<<>>, Error("FileNotFoundError", "File does not exist: ",
                           <<location>>, "none"))
    ELSE Return(<<>>, read_text(files, Path(location)))

\* a faulty variant: a client that is created and never closed
with_client_left_open(location) ==
    <<Ev("client_open", "httpx.Client", <<>>), Ev("get", "httpx.Client", location)>>

\* the with block: the client is closed however the block is left
with_client(location) ==
    <<Ev("client_open", "httpx.Client", <<>>), Ev("get", "httpx.Client", location),
      Ev("client_close", "httpx.Client", <<>>)>>

\* the try block of fetch, given the exception raised inside the with block
try_get(location, net, exc) ==
    IF exc = "none" THEN Return(with_client(location), net.body)
    ELSE IF exc \in httpx_HTTPError
    THEN Raise(with_client(location),
               Error("ConnectionError", "Failed to fetch from ", <<location>>, exc))
    ELSE Raise(with_client(location), Error(exc, "Invalid port: ", <<>>, "none"))

HttpContentFetcher_fetch(location, net) ==
    try_get(location, net, httpx_get(location, net))

\* the fetcher of tests/unit/io/test_readers.py
CustomFetcher_fetch(location) == Return(<<>>, T_CUSTOM)

FetcherTypes == {"FileContentFetcher", "HttpContentFetcher", "CustomFetcher"}

fetch(cls, files, location, net) ==
    Step(Ev("fetch", cls, location),
         CASE cls = "FileContentFetcher" -> FileContentFetcher_fetch(files, location)
           [] cls = "HttpContentFetcher" -> HttpContentFetcher_fetch(location, net)
           [] OTHER -> CustomFetcher_fetch(location))

\* -------------------------------------------------------------- readers
\* json.loads on the contents above: the value, or "error" (JSONDecodeError)
json_loads(content) ==
    CASE content = T_CFG_JSON -> V_CFG
      [] content = T_BADCFG_JSON -> V_BADCFG
      [] content = T_ROUTES_JSON -> V_ROUTES
      [] content = T_EXTRA_JSON -> V_EXTRA
      [] content = T_BADTYPE_JSON -> V_BADTYPE
      [] content = T_NOROUTES_JSON -> V_NOROUTES
      [] OTHER -> "error"

\* yaml.safe_load on the contents above: the value, or "error" (YAMLError)
yaml_safe_load(content) ==
    CASE content = T_CFG_JSON -> V_CFG
      [] content = T_BADCFG_JSON -> V_BADCFG
      [] content = T_ROUTES_JSON -> V_ROUTES
      [] content = T_EXTRA_JSON -> V_EXTRA
      [] content = T_BADTYPE_JSON -> V_BADTYPE
      [] content = T_NOROUTES_JSON -> V_NOROUTES
      [] content = T_CFG_YAML -> V_CFG
      [] content = T_EMPTY -> V_NULL
      [] content = T_CUSTOM -> V_STR
      [] OTHER -> "error"

\* the class of the exception json.loads raises, "none" when it raises none:
\* JSONDecodeError for text it cannot parse, RecursionError when the nesting
\* exhausts the interpreter's stack before the parser reaches the error
json_raises(content) ==
    IF content = T_DEEP THEN "RecursionError"
    ELSE IF json_loads(content) = "error" THEN "JSONDecodeError"
    ELSE "none"

JsonReader_read_content(content) ==
    IF json_raises(content) = "JSONDecodeError"
    THEN Raise(<<>>, Error("ValueError", "Invalid JSON content: ", <<>>,
                           "JSONDecodeError"))
    ELSE IF json_raises(content) # "none"
    THEN Raise(<<>>, Error(json_raises(content),
                           "maximum recursion depth exceeded", <<>>, "none"))
    ELSE Return(<<>>, json_loads(content))

YamlReader_read_content(content) ==
    IF yaml_safe_load(content) = "error"
    THEN Raise(<<>>, Error("ValueError", "Invalid YAML content: ", <<>>,
                           "YAMLError"))
    ELSE Return(<<>>, yaml_safe_load(content))

\* the reader of tests/unit/io/test_readers.py
CustomReader_read_content(content) == Return(<<>>, V_CUSTOM)

ReaderTypes == {"JsonReader", "YamlReader", "CustomReader"}

read_content(cls, content) ==
    Step(Ev("read_content", cls, <<content>>),
         CASE cls = "JsonReader" -> JsonReader_read_content(content)
           [] cls = "YamlReader" -> YamlReader_read_content(content)
           [] OTHER -> CustomReader_read_content(content))

\* ----------------------------------------------------------- validators
\* a validator argument that is absent, and a field that is
None == "None"

\* the parsed values that are mappings, and the value a mapping has for a
\* field of MCPConfiguration (None, the field's default, when it has none)
Mappings == {V_CFG, V_EXTRA, V_ROUTES, V_NOROUTES, V_BADCFG, V_BADTYPE, V_CUSTOM}

input_field(data, field) ==
    CASE field = "mcp_names" /\ data \in {V_CFG, V_EXTRA} -> N_AB
      [] field = "route_maps" /\ data = V_ROUTES -> R_DICTS
      [] field = "route_maps" /\ data = V_NOROUTES -> R_EMPTY
      [] field = "route_maps" /\ data = V_BADCFG -> R_INTS
      [] field = "route_maps" /\ data = V_BADTYPE -> R_NOPE
      [] OTHER -> None

\* MCPConfiguration.build_route_maps: the list of RouteMap objects, or the
\* class of the exception it raises
build_route_maps(v) ==
    CASE v = None -> None
      [] v = R_EMPTY -> R_EMPTY
      [] v = R_DICTS -> R_BUILT
      [] v = R_NOPE -> "ValueError"
      [] OTHER -> "TypeError"

\* the instance with the given field values
MCPConfiguration(mcp_names, route_maps) ==
    CASE mcp_names = N_AB /\ route_maps = None -> M_CFG
      [] mcp_names = None /\ route_maps = R_BUILT -> M_ROUTES
      [] mcp_names = None /\ route_maps = R_EMPTY -> M_NOROUTES
      [] OTHER -> M_EMPTY

\* the value an instance has for a field
instance_field(instance, field) ==
    CASE field = "mcp_names" /\ instance = M_CFG -> N_AB
      [] field = "route_maps" /\ instance = M_ROUTES -> R_BUILT
      [] field = "route_maps" /\ instance = M_NOROUTES -> R_EMPTY
      [] OTHER -> None

\* the class of the exception MCPConfiguration.model_validate raises, "none"
\* when it raises none: pydantic turns a field validator's ValueError into its
\* ValidationError and lets any other exception through
model_validate_raises(data) ==
    IF data \notin Mappings THEN "ValidationError"
    ELSE IF build_route_maps(input_field(data, "route_maps")) = "ValueError"
    THEN "ValidationError"
    ELSE IF build_route_maps(input_field(data, "route_maps")) = "TypeError"
    THEN "TypeError"
    ELSE "none"

\* MCPConfiguration.model_validate on a value it accepts: fields it does not
\* declare are ignored
model_validate(data) ==
    MCPConfiguration(input_field(data, "mcp_names"),
                     build_route_maps(input_field(data, "route_maps")))

NoOpValidator_validate(data) == Return(<<>>, data)

\* a faulty variant: only pydantic's own ValidationError is wrapped
PydanticValidator_validate_wraps_validation_error(data) ==
    IF model_validate_raises(data) = "ValidationError"
    THEN Raise(<<>>, Error("ValueError", "Pydantic validation failed: ", <<>>,
                           "ValidationError"))
    ELSE IF model_validate_raises(data) # "none"
    THEN Raise(<<>>, Error(model_validate_raises(data), "", <<>>, "none"))
    ELSE Return(<<>>, model_validate(data))

PydanticValidator_validate(data) ==
    IF model_validate_raises(data) # "none"
    THEN Raise(<<>>, Error("ValueError", "Pydantic validation failed: ", <<>>,
                           model_validate_raises(data)))
    ELSE Return(<<>>, model_validate(data))

\* a validator argument: None, or an instance of one of the two classes
Validators == {"NoOpValidator", "PydanticValidator"}

validate(cls, data) ==
    Step(Ev("validate", cls, <<data>>),
         CASE cls = "PydanticValidator" -> PydanticValidator_validate(data)
           [] OTHER -> NoOpValidator_validate(data))

\* ------------------------------------------- route maps, item by item
\* MCPType.__members__ (fastmcp.server.openapi)
MCPTypeNames == {"TOOL", "RESOURCE", "RESOURCE_TEMPLATE", "EXCLUDE"}

\* the value a mapping has under 'mcp_type': a string, or an MCPType member
PyStr(v) == [type |-> "str", v |-> v]
MCPTypeMember(v) == [type |-> "MCPType", v |-> v]
NoMCPType == [type |-> "absent", v |-> ""]

\* members of a tags list, written as Python writes them; a list is a member
\* that cannot be hashed
E_A == "'a'"
E_B == "'b'"
E_LIST == "['a']"

hashable(e) == e # E_LIST

\* the value under 'tags' or 'mcp_tags': none, a list or a set
NoTags == [type |-> "absent", list |-> <<>>, set |-> {}]
TagList(l) == [type |-> "list", list |-> l, set |-> {}]
TagSet(s) == [type |-> "set", list |-> <<>>, set |-> s]

\* set(list) raises TypeError when a member cannot be hashed
set_raises(l) == \E i \in 1..Len(l) : ~hashable(l[i])

set_of(l) == {l[i] : i \in 1..Len(l)}

\* an item of route_maps: a RouteMap, a mapping (extra: it has a key that is
\* no field of RouteMap), or a value of another type
RouteMapObject(mcp_type, tags, mcp_tags) ==
    [type |-> "RouteMap", mcp_type |-> MCPTypeMember(mcp_type), tags |-> tags,
     mcp_tags |-> mcp_tags, extra |-> FALSE]

Dict(mcp_type, tags, mcp_tags, extra) ==
    [type |-> "dict", mcp_type |-> mcp_type, tags |-> tags, mcp_tags |-> mcp_tags,
     extra |-> extra]

Other(type) ==
    [type |-> type, mcp_type |-> NoMCPType, tags |-> NoTags, mcp_tags |-> NoTags,
     extra |-> FALSE]

\* item["mcp_type"] = MCPType[item["mcp_type"]], and the KeyError of a string
\* that names no member
mcp_type_raises(item) ==
    item.mcp_type.type = "str" /\ item.mcp_type.v \notin MCPTypeNames

convert_mcp_type(item) ==
    IF item.mcp_type.type = "str" /\ item.mcp_type.v \in MCPTypeNames
    THEN [item EXCEPT !.mcp_type = MCPTypeMember(item.mcp_type.v)]
    ELSE item

\* item[key] = set(item[key]) for a key whose value is a list
tags_raise(item, key) == item[key].type = "list" /\ set_raises(item[key].list)

\* a faulty variant: the list is left as it is
convert_tags_keeps_list(item, key) == item

convert_tags(item, key) ==
    IF item[key].type = "list"
    THEN [item EXCEPT ![key] = TagSet(set_of(item[key].list))]
    ELSE item

\* RouteMap(**item): TypeError for a keyword that is no field
RouteMap_raises(item) == item.extra

RouteMap_from(item) == [item EXCEPT !.type = "RouteMap"]

\* one turn of the loop of build_route_maps: the item as the turn leaves it,
\* and the RouteMap appended or the exception raised
Built(item, out) == [item |-> item, status |-> "returned", out |-> out, error |-> NoError]
Failed(item, error) == [item |-> item, status |-> "raised", out |-> item, error |-> error]

unhashable == Error("TypeError", "unhashable type: ", <<"list">>, "none")

build_route_map(item) ==
    IF item.type = "RouteMap" THEN Built(item, item)
    ELSE IF item.type # "dict"
    THEN Failed(item, Error("TypeError", "Invalid type for route_map: ",
                            <<item.type>>, "none"))
    ELSE IF mcp_type_raises(item)
    THEN Failed(item, Error("ValueError", "Invalid MCPType: ",
                            <<item.mcp_type.v>>, "KeyError"))
    ELSE IF tags_raise(item, "mcp_tags")
    THEN Failed(convert_mcp_type(item), unhashable)
    ELSE IF tags_raise(item, "tags")
    THEN Failed(convert_tags(convert_mcp_type(item), "mcp_tags"), unhashable)
    ELSE IF RouteMap_raises(item)
    THEN Failed(convert_tags(convert_tags(convert_mcp_type(item), "mcp_tags"), "tags"),
                Error("ValueError", "Error creating RouteMap from item: ", <<>>,
                      "TypeError"))
    ELSE Built(convert_tags(convert_tags(convert_mcp_type(item), "mcp_tags"), "tags"),
               RouteMap_from(convert_tags(convert_tags(convert_mcp_type(item),
                                                       "mcp_tags"), "tags")))

\* the value given for route_maps: nothing, None or a list
RouteMapsAbsent == [type |-> "absent", list |-> <<>>]
RouteMapsNone == [type |-> "None", list |-> <<>>]
RouteMapsList(l) == [type |-> "list", list |-> l]

\* how a call on the value v ends: v as the call leaves it, and the value
\* returned or the exception raised
Outcome(v, status, value, error) ==
    [after |-> v, status |-> status, value |-> value, error |-> error]

\* the loop of build_route_maps from item i on, result being the list so far
RECURSIVE build_from(_, _, _)
build_from(v, i, result) ==
    IF i > Len(v)
    THEN Outcome(RouteMapsList(v), "returned", RouteMapsList(result), NoError)
    ELSE IF build_route_map(v[i]).status = "raised"
    THEN Outcome(RouteMapsList([v EXCEPT ![i] = build_route_map(v[i]).item]),
                 "raised", RouteMapsNone, build_route_map(v[i]).error)
    ELSE build_from([v EXCEPT ![i] = build_route_map(v[i]).item], i + 1,
                    Append(result, build_route_map(v[i]).out))

build_route_maps_of(v) ==
    IF v.type = "None" THEN Outcome(v, "returned", v, NoError)
    ELSE build_from(v.list, 1, <<>>)

\* MCPConfiguration(route_maps=v): the validator runs on a value that is
\* given; pydantic reports its ValueError as a ValidationError that quotes the
\* message, and lets a TypeError through
validation_error(error) ==
    Error("ValidationError", "1 validation error for MCPConfiguration",
          <<error.prefix>>, error.kind)

MCPConfiguration_init(v) ==
    IF v.type = "absent" THEN Outcome(v, "returned", RouteMapsNone, NoError)
    ELSE IF build_route_maps_of(v).status = "raised"
            /\ build_route_maps_of(v).error.kind = "ValueError"
    THEN [build_route_maps_of(v) EXCEPT
              !.error = validation_error(build_route_maps_of(v).error)]
    ELSE build_route_maps_of(v)

\* PydanticValidator(MCPConfiguration).validate(d), d being a mapping with
\* the value v for route_maps
PydanticValidator_validate_of(v) ==
    IF MCPConfiguration_init(v).status = "raised"
    THEN [MCPConfiguration_init(v) EXCEPT
              !.error = Error("ValueError", "Pydantic validation failed: ",
                              <<MCPConfiguration_init(v).error.prefix>>
                                  \o MCPConfiguration_init(v).error.args,
                              MCPConfiguration_init(v).error.kind)]
    ELSE MCPConfiguration_init(v)

\* ----------------------------------------------------------- DataReader
DEFAULT_SCHEMA == s_file

\* DataReader.__init__: the registries every instance starts with
default_reader_classes ==
    (ext_json :> "JsonReader") @@ (ext_yaml :> "YamlReader") @@ (ext_yml :> "YamlReader")

default_fetcher_classes ==
    (s_file :> "FileContentFetcher") @@ (s_http :> "HttpContentFetcher")
        @@ (s_https :> "HttpContentFetcher")

\* default_validator or NoOpValidator()
init_default_validator(default_validator) ==
    IF default_validator # None THEN default_validator ELSE "NoOpValidator"

\* a faulty variant: the key is stored as given
register_reader_as_given(classes, extension, reader_class) ==
    (extension :> reader_class) @@ classes

register_reader(classes, extension, reader_class) ==
    (lower(extension) :> reader_class) @@ classes

register_fetcher(classes, scheme, fetcher_class) ==
    (lower(scheme) :> fetcher_class) @@ classes

\* a faulty variant: every non-empty scheme is kept, registered or not
scheme_of_kept(fetcher_classes, parsed) ==
    IF parsed.scheme # <<>> THEN parsed.scheme ELSE DEFAULT_SCHEMA

\* load_from: the scheme the fetcher is looked up under
scheme_of(fetcher_classes, parsed) ==
    IF parsed.scheme \in DOMAIN fetcher_classes THEN parsed.scheme
    ELSE DEFAULT_SCHEMA

\* a faulty variant: the suffix is not lower-cased
extension_of_as_written(file_location, parsed) ==
    suffix(IF parsed.scheme # <<>> THEN parsed.path ELSE file_location)

\* a faulty variant: the suffix of the whole location, scheme or not
extension_of_whole_location(file_location, parsed) == lower(suffix(file_location))

\* load_from: the extension the reader is looked up under
extension_of(file_location, parsed) ==
    lower(suffix(IF parsed.scheme # <<>> THEN parsed.path ELSE file_location))

create_fetcher(fetcher_classes, scheme) ==
    IF scheme \notin DOMAIN fetcher_classes
    THEN Raise(<<>>, Error("UnsupportedSchemeError",
                           "No fetcher registered for scheme: ", <<scheme>>, "none"))
    ELSE Return(<<Ev("new", fetcher_classes[scheme], <<>>)>>, fetcher_classes[scheme])

\* a faulty variant: the extension check raises the scheme error
create_reader_scheme_error(reader_classes, extension) ==
    IF extension \notin DOMAIN reader_classes
    THEN Raise(<<>>, Error("UnsupportedSchemeError",
                           "No reader registered for extension: ", <<extension>>, "none"))
    ELSE Return(<<Ev("new", reader_classes[extension], <<>>)>>, reader_classes[extension])

create_reader(reader_classes, extension) ==
    IF extension \notin DOMAIN reader_classes
    THEN Raise(<<>>, Error("UnsupportedExtensionError",
                           "No reader registered for extension: ", <<extension>>, "none"))
    ELSE Return(<<Ev("new", reader_classes[extension], <<>>)>>, reader_classes[extension])

\* a faulty variant: the instance's default validator wins over the one passed
active_validator_default_first(validator, default_validator) ==
    IF default_validator # "NoOpValidator" THEN default_validator
    ELSE IF validator # None THEN validator
    ELSE default_validator

\* validator or self._default_validator
active_validator(validator, default_validator) ==
    IF validator # None THEN validator ELSE default_validator

\* a faulty variant: a statement that raised does not end the call
Then_continues(done, next) == [next EXCEPT !.trace = done.trace \o @]

\* a statement that raised ends the call; otherwise the next one runs after it
Then(done, next) ==
    IF done.status = "raised" THEN done
    ELSE [next EXCEPT !.trace = done.trace \o @]

\* load_from, statement by statement; self is the instance: its two registries
\* and its default validator
validated(self, validator, data) ==
    Then(data, validate(active_validator(validator, self.default_validator), data.value))

parsed_content(self, validator, reader, content) ==
    validated(self, validator, Then(content, read_content(reader.value, content.value)))

fetched(self, files, file_location, validator, net, fetcher, reader) ==
    parsed_content(self, validator, reader,
                   Then(reader, fetch(fetcher.value, files, file_location, net)))

created(self, files, file_location, validator, net, fetcher, extension) ==
    fetched(self, files, file_location, validator, net, fetcher,
            Then(fetcher, create_reader(self.reader_classes, extension)))

dispatched(self, files, file_location, validator, net, parsed) ==
    created(self, files, file_location, validator, net,
            create_fetcher(self.fetcher_classes, scheme_of(self.fetcher_classes, parsed)),
            extension_of(file_location, parsed))

load_from(self, files, file_location, validator, net) ==
    dispatched(self, files, file_location, validator, net, urlparse(file_location))

\* mcp_xray.utils.readers.DataReader: the same classes and methods, line for
\* line, but for the scheme load_from looks the fetcher up under
utils_scheme_of(parsed) ==
    IF parsed.scheme # <<>> THEN parsed.scheme ELSE DEFAULT_SCHEMA

utils_load_from(self, files, file_location, validator, net) ==
    created(self, files, file_location, validator, net,
            create_fetcher(self.fetcher_classes, utils_scheme_of(urlparse(file_location))),
            extension_of(file_location, urlparse(file_location)))

\* ------------------------------------------------------------- settings
\* a value that may be absent: an environment variable, an optional field
Some(v) == [set |-> TRUE, value |-> v]
Nothing == [set |-> FALSE, value |-> ""]
NoLocation == [set |-> FALSE, value |-> <<>>]

\* the environment variables the program reads
EnvVars ==
    {"XRAY_URL", "XRAY_AUTH_TYPE", "XRAY_PERSONAL_TOKEN", "XRAY_READ_ONLY",
     "XRAY_OPENAPI_SPEC", "XRAY_CONFIG_FILE", "TRANSPORT", "HOST", "PORT",
     "STREAMABLE_HTTP_PATH"}

LocationVars == {"XRAY_OPENAPI_SPEC", "XRAY_CONFIG_FILE"}

Unset(key) == IF key \in LocationVars THEN NoLocation ELSE Nothing

\* os.getenv(key, default)
getenv(environ, key, default) ==
    IF environ[key].set THEN environ[key].value ELSE default

\* URLs, tokens and flags given in the environment or on the command line
U_XRAY == "https://xray.example.com"
U_JIRA == "https://xray.company.com/jira"
U_NOSCHEME == "xray.example.com"
TOKEN == "test-token-12345"
TOKEN_CLI == "cli-token"

\* str(HttpUrl(value)): the URL with an empty path made "/", "error" when the
\* value is no http or https URL
http_url(value) ==
    CASE value = U_XRAY -> "https://xray.example.com/"
      [] value = U_JIRA -> U_JIRA
      [] OTHER -> "error"

\* pydantic's reading of a bool field from a string
bool_texts == {"true", "false", "1", "0"}
bool_of(text) == text \in {"true", "1"}

\* AppSettings.timeout
DEFAULT_TIMEOUT == 20

\* the fields of AppSettings the environment gives no valid value for
AppSettings_errors(environ) ==
    {f \in {"url"} : ~environ["XRAY_URL"].set
                      \/ http_url(environ["XRAY_URL"].value) = "error"}
    \cup {f \in {"auth_type"} : getenv(environ, "XRAY_AUTH_TYPE", "pat") # "pat"}
    \cup {f \in {"personal_token"} : ~environ["XRAY_PERSONAL_TOKEN"].set}
    \cup {f \in {"read_only"} :
              getenv(environ, "XRAY_READ_ONLY", "false") \notin bool_texts}
    \cup {f \in {"openapi_spec"} : ~environ["XRAY_OPENAPI_SPEC"].set}

\* AppSettings(): the instance built from the environment, the id-th one built
AppSettings(environ, id) ==
    [id |-> id,
     url |-> http_url(environ["XRAY_URL"].value),
     auth_type |-> getenv(environ, "XRAY_AUTH_TYPE", "pat"),
     personal_token |-> environ["XRAY_PERSONAL_TOKEN"],
     read_only |-> bool_of(getenv(environ, "XRAY_READ_ONLY", "false")),
     openapi_spec |-> environ["XRAY_OPENAPI_SPEC"].value,
     config_file |-> environ["XRAY_CONFIG_FILE"],
     timeout |-> DEFAULT_TIMEOUT]

\* the empty lru_cache of get_app_settings
NoSettings == [id |-> 0]

\* a result together with the cache the call leaves
Cached(result, cache) ==
    [trace |-> result.trace, status |-> result.status, value |-> result.value,
     error |-> result.error, cache |-> cache]

\* AppSettings() called on a cache miss; an instance that was built is cached
build_settings(cache, environ, id) ==
    IF AppSettings_errors(environ) # {}
    THEN Cached(Raise(<<Ev("AppSettings", "AppSettings", <<>>)>>,
                      Error("ValidationError", "validation errors for AppSettings",
                            <<>>, "none")),
                cache)
    ELSE Cached(Return(<<Ev("AppSettings", "AppSettings", <<>>)>>,
                       AppSettings(environ, id)),
                AppSettings(environ, id))

\* a faulty variant: no cache, every call builds an instance
get_app_settings_uncached(cache, environ, id) == build_settings(cache, environ, id)

\* @lru_cache get_app_settings()
get_app_settings(cache, environ, id) ==
    IF cache.id # 0 THEN Cached(Return(<<>>, cache), cache)
    ELSE build_settings(cache, environ, id)

\* ----------------------------------------------------------- XrayClient
\* a value Python treats as false: None or the empty string
falsy(optional) == ~optional.set \/ optional.value = ""

\* the keyword arguments httpx.AsyncClient is constructed with
AsyncClient(config) ==
    [base_url |-> config.url,
     headers |-> [Authorization |-> <<"Bearer ", config.personal_token.value>>,
                  ContentType |-> "application/json"],
     timeout |-> config.timeout]

\* a faulty variant: the token is checked before the authentication type
XrayClient_from_config_token_first(config) ==
    IF falsy(config.personal_token)
    THEN Raise(<<>>, Error("ValueError",
                           "Personal Access Token is required for Xray API.", <<>>, "none"))
    ELSE IF config.auth_type # "pat"
    THEN Raise(<<>>, Error("ValueError", "Unsupported authentication type: ",
                           <<config.auth_type>>, "none"))
    ELSE Return(<<Ev("AsyncClient", "httpx.AsyncClient", AsyncClient(config))>>,
                AsyncClient(config))

\* XrayClient.from_config(config)
XrayClient_from_config(config) ==
    IF config.auth_type = "pat"
    THEN IF falsy(config.personal_token)
         THEN Raise(<<>>, Error("ValueError",
                                "Personal Access Token is required for Xray API.",
                                <<>>, "none"))
         ELSE Return(<<Ev("AsyncClient", "httpx.AsyncClient", AsyncClient(config))>>,
                     AsyncClient(config))
    ELSE Raise(<<>>, Error("ValueError", "Unsupported authentication type: ",
                           <<config.auth_type>>, "none"))

\* XrayClient.close(): the step that closes the underlying httpx.AsyncClient
XrayClient_close(client) == Ev("aclose", "httpx.AsyncClient", client)

\* --------------------------------------------------------------- server
\* the rule list create_mcp builds in read-only mode
R_READ_ONLY == "[RouteMap(methods=['POST', 'PUT', 'DELETE'], mcp_type=MCPType.EXCLUDE)]"

RouteMap(methods, mcp_type) == [methods |-> methods, mcp_type |-> mcp_type]

\* the rules a route_maps value holds, in order
route_rules(route_maps) ==
    CASE route_maps = R_READ_ONLY -> <<RouteMap({"POST", "PUT", "DELETE"}, "EXCLUDE")>>
      [] route_maps = R_BUILT -> <<RouteMap({"GET"}, "TOOL")>>
      [] OTHER -> <<>>

\* a list Python treats as true: not None and not empty
truthy_list(route_maps) == route_rules(route_maps) # <<>>

\* DataReader(): the default registries, no validation by default
DataReader ==
    [reader_classes |-> default_reader_classes,
     fetcher_classes |-> default_fetcher_classes,
     default_validator |-> init_default_validator(None)]

\* a faulty variant: read-only mode wins over the configured rules
select_route_maps_read_only_first(read_only, config_route_maps) ==
    IF read_only THEN R_READ_ONLY ELSE config_route_maps

\* the rules create_mcp passes on
select_route_maps(read_only, config_route_maps) ==
    IF read_only /\ ~truthy_list(config_route_maps)
    THEN R_READ_ONLY
    ELSE config_route_maps

\* the keyword arguments of FastMCP.from_openapi
from_openapi_kwargs(settings, client, openapi_spec, mcp_config) ==
    [name |-> "Xray MCP",
     client |-> client,
     route_maps |-> select_route_maps(settings.read_only,
                                      instance_field(mcp_config, "route_maps")),
     openapi_spec |-> openapi_spec,
     mcp_names |-> instance_field(mcp_config, "mcp_names")]

\* the warning logged when read-only mode meets configured rules
warned(settings, mcp_config) ==
    IF settings.read_only /\ truthy_list(instance_field(mcp_config, "route_maps"))
    THEN <<Ev("warning", "logger", settings.config_file.value)>>
    ELSE <<>>

create_mcp_app(trace, cache, kwargs) ==
    Cached(Return(trace \o <<Ev("from_openapi", "FastMCP", kwargs)>>, kwargs), cache)

\* the configuration is loaded, or the default one is used
load_config(settings, files) ==
    IF settings.config_file.set /\ settings.config_file.value # <<>>
    THEN Step(Ev("load_from", "DataReader", settings.config_file.value),
              load_from(DataReader, files, settings.config_file.value,
                        "PydanticValidator", NoNet))
    ELSE Return(<<Ev("MCPConfiguration", "MCPConfiguration", <<>>)>>, M_EMPTY)

create_mcp_config(trace, cache, settings, client, openapi_spec, loaded) ==
    IF loaded.status = "raised"
    THEN Cached(Raise(trace \o loaded.trace, loaded.error), cache)
    ELSE create_mcp_app(trace \o loaded.trace \o warned(settings, loaded.value), cache,
                        from_openapi_kwargs(settings, client, openapi_spec, loaded.value))

create_mcp_spec(trace, cache, settings, client, loaded, files) ==
    IF loaded.status = "raised"
    THEN Cached(Raise(trace \o loaded.trace, loaded.error), cache)
    ELSE create_mcp_config(trace \o loaded.trace, cache, settings, client, loaded.value,
                           load_config(settings, files))

create_mcp_client(trace, cache, settings, made, files) ==
    IF made.status = "raised"
    THEN Cached(Raise(trace \o made.trace, made.error), cache)
    ELSE create_mcp_spec(trace \o made.trace, cache, settings, made.value,
                         Step(Ev("load_from", "DataReader", settings.openapi_spec),
                              load_from(DataReader, files, settings.openapi_spec,
                                        None, NoNet)),
                         files)

create_mcp_settings(got, files) ==
    IF got.status = "raised"
    THEN Cached(Raise(<<Ev("get_app_settings", "config", <<>>)>> \o got.trace, got.error),
                got.cache)
    ELSE create_mcp_client(<<Ev("get_app_settings", "config", <<>>)>> \o got.trace,
                           got.cache, got.value,
                           Step(Ev("from_config", "XrayClient", <<>>),
                                XrayClient_from_config(got.value)),
                           files)

\* create_mcp()
create_mcp(cache, environ, id, files) ==
    create_mcp_settings(get_app_settings(cache, environ, id), files)

\* ----------------------------------------------------------------- main
\* an option that was not given: a flag, a number
NoFlag == [set |-> FALSE, value |-> FALSE]
NoPort == [set |-> FALSE, value |-> 0]

Transports == {"stdio", "sse", "streamable-http"}

DEFAULT_PORT == 8000
DEFAULT_HOST == "0.0.0.0"

\* str.str_lower() of the transport names given
str_lower(text) ==
    CASE text = "SSE" -> "sse"
      [] text = "STDIO" -> "stdio"
      [] OTHER -> text

\* str.isdigit() and int() of the port texts given: a superscript two is a
\* digit to isdigit, and no number to int
isdigit(text) == text \in {"9000", "9001", "²"}

IntTexts == ("9000" :> 9000) @@ ("9001" :> 9001)

int_raises(text) == text \notin DOMAIN IntTexts

int(text) == IntTexts[text]

\* logging.getLevelName(current_logging_level).str_lower()
log_level(verbose) ==
    IF verbose = 1 THEN "info" ELSE IF verbose >= 2 THEN "debug" ELSE "warning"

\* what click refuses before main runs: a required option that is missing, a
\* transport outside the choices, a port that is no integer, a configuration
\* file that does not exist
click_errors(cmd, files) ==
    {o \in {"xray_url", "xray_personal_token", "xray_openapi_spec"} : ~cmd[o].set}
    \cup {o \in {"transport"} : cmd.transport.set
                                  /\ str_lower(cmd.transport.value) \notin Transports}
    \cup {o \in {"port"} : cmd.port.set /\ int_raises(cmd.port.value)}
    \cup {o \in {"config_file"} : cmd.config_file.set
                                    /\ ~is_file(files, Path(cmd.config_file.value))}

\* was_option_provided(click_ctx, param_name): the source of a parameter click
\* does not know is None, which is neither DEFAULT nor DEFAULT_MAP
was_option_provided(cmd, param_name) ==
    IF param_name \in DOMAIN cmd THEN cmd[param_name].set ELSE TRUE

final_transport_of(text) == IF text \in Transports THEN text ELSE "stdio"

final_transport(cmd, environ) ==
    final_transport_of(IF was_option_provided(cmd, "transport")
                       THEN str_lower(cmd.transport.value)
                       ELSE str_lower(getenv(environ, "TRANSPORT", "stdio")))

\* int(port_env) raises; it is evaluated whether or not --port was given
port_env_raises(environ) ==
    /\ environ["PORT"].set
    /\ isdigit(environ["PORT"].value)
    /\ int_raises(environ["PORT"].value)

final_port(cmd, environ) ==
    IF was_option_provided(cmd, "port") THEN int(cmd.port.value)
    ELSE IF environ["PORT"].set /\ isdigit(environ["PORT"].value)
    THEN int(environ["PORT"].value)
    ELSE DEFAULT_PORT

\* a faulty variant: the environment wins over the command line
final_host_env_first(cmd, environ) ==
    IF environ["HOST"].set THEN environ["HOST"].value
    ELSE IF was_option_provided(cmd, "host") THEN cmd.host.value
    ELSE DEFAULT_HOST

final_host(cmd, environ) ==
    IF was_option_provided(cmd, "host") THEN cmd.host.value
    ELSE getenv(environ, "HOST", DEFAULT_HOST)

final_path(cmd, environ) ==
    IF was_option_provided(cmd, "path") THEN cmd.path ELSE environ["STREAMABLE_HTTP_PATH"]

\* the environment after main has written the options given to it
set_env_vars(cmd, environ) ==
    [environ EXCEPT
        !["XRAY_OPENAPI_SPEC"] =
            IF was_option_provided(cmd, "openapi_spec") THEN cmd.xray_openapi_spec ELSE @,
        !["XRAY_URL"] =
            IF was_option_provided(cmd, "xray_url") THEN cmd.xray_url ELSE @,
        !["XRAY_PERSONAL_TOKEN"] =
            IF was_option_provided(cmd, "xray_personal_token")
            THEN cmd.xray_personal_token ELSE @,
        !["XRAY_CONFIG_FILE"] =
            IF cmd.config_file.set /\ cmd.config_file.value # <<>>
                   /\ was_option_provided(cmd, "config_file")
            THEN cmd.config_file ELSE @,
        !["XRAY_READ_ONLY"] =
            IF was_option_provided(cmd, "read_only")
            THEN Some(IF cmd.read_only.value THEN "true" ELSE "false") ELSE @]

\* the keyword arguments of mcp_app.run_async
http_kwargs(transport, host, port, level, path) ==
    [transport |-> transport, host |-> Some(host), port |-> Some(port),
     log_level |-> Some(level), path |-> path]

run_kwargs(cmd, environ) ==
    IF final_transport(cmd, environ) = "stdio"
    THEN [transport |-> "stdio", host |-> Nothing, port |-> NoPort,
          log_level |-> Nothing, path |-> Nothing]
    ELSE http_kwargs(final_transport(cmd, environ), final_host(cmd, environ),
                     final_port(cmd, environ), log_level(cmd.verbose),
                     final_path(cmd, environ))

\* the ways asyncio.run(mcp_app.run_async(...)) ends
RunOutcomes == {"returns", "KeyboardInterrupt", "SystemExit", "Exception"}

\* the process has ended with the exit status code
Exit(trace, code, error, cache, environ) ==
    [trace |-> trace, status |-> "exited", value |-> code, error |-> error,
     cache |-> cache, environ |-> environ]

\* the try block around the transport loop, and what is left of main after it
main_run(trace, cache, environ, outcome) ==
    IF outcome = "Exception"
    THEN Exit(trace \o <<Ev("sys.exit", "sys", 1)>>, 1,
              Error("Exception", "Server encountered an error: ", <<>>, "none"),
              cache, environ)
    ELSE IF outcome \in {"KeyboardInterrupt", "SystemExit"}
    THEN Exit(trace \o <<Ev("shutdown", "logger", outcome)>>, 0, NoError, cache, environ)
    ELSE Exit(trace, 0, NoError, cache, environ)

main_created(cmd, environ, built, outcome) ==
    IF built.status = "raised"
    THEN Exit(built.trace, 1, built.error, built.cache, environ)
    ELSE main_run(built.trace \o <<Ev("run_async", "FastMCP", run_kwargs(cmd, environ))>>,
                  built.cache, environ, outcome)

main_env(cmd, environ, cache, id, files, outcome) ==
    main_created(cmd, environ, create_mcp(cache, environ, id, files), outcome)

\* main(), as the process entry point: click parses the command line, and the
\* exit status is click's 2 for a usage error, 1 for an exception that leaves
\* main or a sys.exit(1), and 0 when main returns
main(cmd, environ, cache, id, files, outcome) ==
    IF click_errors(cmd, files) # {}
    THEN Exit(<<>>, 2, Error("UsageError", "", <<>>, "none"), cache, environ)
    ELSE IF port_env_raises(environ)
    THEN Exit(<<>>, 1, Error("ValueError", "invalid literal for int() with base 10: ",
                             <<environ["PORT"].value>>, "none"),
              cache, environ)
    ELSE main_env(cmd, set_env_vars(cmd, environ), cache, id, files, outcome)

\* ---------------------------------------------------------------- state
\* the DataReader instances: DataReader() and
\* DataReader(default_validator=PydanticValidator(MCPConfiguration))
Readers == {"r1", "r2"}
constructed_with == ("r1" :> None) @@ ("r2" :> "PydanticValidator")

\* the keys the registration calls are made with
RegExtensions == {<<".", "J", "S", "O", "N">>, ext_xyz}
RegSchemes == {<<"F", "T", "P">>, s_file}

\* the number of registration calls made on the instances
MaxRegistrations == 1

\* the files and directories on disk
InitialFiles ==
    (loc_s_json :> File(T_CFG_JSON)) @@ (loc_s_JSON :> File(T_BADCFG_JSON))
        @@ (loc_c_yaml :> File(T_CFG_YAML)) @@ (loc_c_yml :> File(T_EMPTY))
        @@ (loc_b_json :> File(T_BROKEN)) @@ (loc_d_json :> Dir)
        @@ (loc_a_xyz :> File(T_CFG_JSON)) @@ (loc_noext :> File(T_CFG_JSON))
        @@ (loc_hash :> File(T_CFG_JSON)) @@ (loc_colon :> File(T_CFG_JSON))
        @@ (loc_colon_hash :> File(T_CFG_JSON)) @@ (loc_r_json :> File(T_ROUTES_JSON))
        @@ (loc_e_json :> File(T_EXTRA_JSON)) @@ (loc_t_json :> File(T_BADTYPE_JSON))
        @@ (loc_o_json :> File(T_NOROUTES_JSON))

\* ================================================== the server process
\* the values the environment variables are set to
EnvValues(key) ==
    CASE key = "XRAY_URL" -> {U_XRAY, U_NOSCHEME}
      [] key = "XRAY_AUTH_TYPE" -> {"oauth"}
      [] key = "XRAY_PERSONAL_TOKEN" -> {TOKEN, ""}
      [] key = "XRAY_READ_ONLY" -> {"true", "maybe"}
      [] key = "XRAY_OPENAPI_SPEC" -> {loc_s_json, loc_m_json}
      [] key = "XRAY_CONFIG_FILE" -> {loc_r_json, loc_o_json, loc_s_JSON}
      [] key = "TRANSPORT" -> {"SSE", "bogus"}
      [] key = "HOST" -> {"127.0.0.1"}
      [] key = "PORT" -> {"9000", "80a", "²"}
      [] OTHER -> {"/x"}

\* the environment a process starts in: empty, or the three required settings
EnvNone == [key \in EnvVars |-> Unset(key)]

EnvMinimal ==
    [EnvNone EXCEPT !["XRAY_URL"] = Some(U_XRAY),
                    !["XRAY_PERSONAL_TOKEN"] = Some(TOKEN),
                    !["XRAY_OPENAPI_SPEC"] = Some(loc_s_json)]

\* the settings of a read-only server behind an HTTP transport
EnvServer ==
    [EnvMinimal EXCEPT !["XRAY_READ_ONLY"] = Some("true"),
                       !["TRANSPORT"] = Some("SSE"),
                       !["HOST"] = Some("127.0.0.1"),
                       !["PORT"] = Some("9000"),
                       !["STREAMABLE_HTTP_PATH"] = Some("/x")]

InitialEnvironments == {EnvNone, EnvMinimal, EnvServer}

\* the command lines main is started with: the three required options alone,
\* then with the run options and with the Xray options varied
CmdBase ==
    [verbose |-> 0, transport |-> Nothing, port |-> Nothing, host |-> Nothing,
     path |-> Nothing, xray_url |-> Some(U_JIRA), xray_personal_token |-> Some(TOKEN_CLI),
     xray_openapi_spec |-> Some(loc_c_yaml), config_file |-> NoLocation,
     read_only |-> NoFlag]

CommandLines ==
    {[CmdBase EXCEPT !.transport = t, !.port = o[1], !.host = o[2], !.path = o[3]] :
         t \in {Nothing, Some("SSE"), Some("streamable-http")},
         o \in {<<Nothing, Nothing, Nothing>>,
                <<Some("9001"), Some("localhost"), Some("/api")>>}}
    \cup {[CmdBase EXCEPT !.transport = Some("bogus")],
          [CmdBase EXCEPT !.port = Some("x1")],
          [CmdBase EXCEPT !.verbose = 2, !.transport = Some("sse")],
          [CmdBase EXCEPT !.xray_url = Nothing],
          [CmdBase EXCEPT !.xray_personal_token = Nothing],
          [CmdBase EXCEPT !.xray_openapi_spec = NoLocation],
          [CmdBase EXCEPT !.xray_openapi_spec = Some(loc_m_json)]}
    \cup {[CmdBase EXCEPT !.config_file = c, !.read_only = r] :
              c \in {NoLocation, Some(loc_r_json), Some(loc_m_json)},
              r \in {NoFlag, Some(TRUE), Some(FALSE)}}

\* the configuration objects XrayClient.from_config is called with on its own
Configs ==
    {[url |-> U_XRAY, auth_type |-> a, personal_token |-> t, timeout |-> DEFAULT_TIMEOUT] :
         a \in {"pat", "oauth"}, t \in {Some(TOKEN), Some(""), Nothing}}

\* the number of changes made to the environment, of AppSettings instances built
MaxEnvChanges == 1
MaxInstances == 2

NoProc == [op |-> "none"]

Proc(op, input, result) ==
    [op |-> op, input |-> input, trace |-> result.trace, status |-> result.status,
     value |-> result.value, error |-> result.error]

VARIABLES
    reader_classes,      \* instance -> its _reader_classes
    fetcher_classes,     \* instance -> its _fetcher_classes
    default_validator,   \* instance -> its _default_validator
    files,               \* path -> file or directory
    open_clients,        \* httpx clients opened and not yet closed
    registrations,       \* registration calls made so far
    call,                \* the call that has just ended: arguments, steps, result
    previous,            \* the load_from call before it, where calls are compared
    environ,             \* os.environ: variable -> value, if set
    settings_cache,      \* the instance get_app_settings has cached, if any
    instances,           \* AppSettings instances built so far
    env_changes,         \* changes made to the environment so far
    proc                 \* the server call that has just ended

io_vars == <<reader_classes, fetcher_classes, default_validator, files,
             open_clients, registrations, call, previous>>

server_vars == <<environ, settings_cache, instances, env_changes, proc>>

vars == <<io_vars, server_vars>>

NoCall ==
    [op |-> "none", reader |-> "none", location |-> <<>>, validator |-> None,
     net |-> NoNet, trace |-> <<>>, status |-> "none", value |-> "", error |-> NoError]

Call(op, reader, location, validator, net, result) ==
    [op |-> op, reader |-> reader, location |-> location, validator |-> validator,
     net |-> net, trace |-> result.trace, status |-> result.status,
     value |-> result.value, error |-> result.error]

\* the instance r as load_from sees it
Self(r) ==
    [reader_classes |-> reader_classes[r], fetcher_classes |-> fetcher_classes[r],
     default_validator |-> default_validator[r]]

\* the clients a call opened and did not close
left_open(trace) ==
    Cardinality({i \in 1..Len(trace) : trace[i].ev = "client_open"})
        - Cardinality({i \in 1..Len(trace) : trace[i].ev = "client_close"})

Init ==
    /\ reader_classes = [r \in Readers |-> default_reader_classes]
    /\ fetcher_classes = [r \in Readers |-> default_fetcher_classes]
    /\ default_validator = [r \in Readers |-> init_default_validator(constructed_with[r])]
    /\ files = InitialFiles
    /\ open_clients = 0
    /\ registrations = 0
    /\ call = NoCall
    /\ previous = NoCall
    /\ environ = EnvNone
    /\ settings_cache = NoSettings
    /\ instances = 0
    /\ env_changes = 0
    /\ proc = NoProc

\* loading is synchronous and single-threaded: one call at a time
Idle == call.op = "none"

\* a faulty variant: one registry shared by all instances (a class attribute)
RegisterReader_shared(r, extension, reader_class) ==
    /\ Idle
    /\ registrations < MaxRegistrations
    /\ reader_classes' =
           [o \in Readers |-> register_reader(reader_classes[o], extension, reader_class)]
    /\ registrations' = registrations + 1
    /\ UNCHANGED server_vars
    /\ UNCHANGED previous
    /\ UNCHANGED <<fetcher_classes, default_validator, files, open_clients, call>>

RegisterReader(r, extension, reader_class) ==
    /\ Idle
    /\ registrations < MaxRegistrations
    /\ reader_classes' =
           [reader_classes EXCEPT ![r] = register_reader(@, extension, reader_class)]
    /\ registrations' = registrations + 1
    /\ UNCHANGED server_vars
    /\ UNCHANGED previous
    /\ UNCHANGED <<fetcher_classes, default_validator, files, open_clients, call>>

RegisterFetcher(r, scheme, fetcher_class) ==
    /\ Idle
    /\ registrations < MaxRegistrations
    /\ fetcher_classes' =
           [fetcher_classes EXCEPT ![r] = register_fetcher(@, scheme, fetcher_class)]
    /\ registrations' = registrations + 1
    /\ UNCHANGED server_vars
    /\ UNCHANGED previous
    /\ UNCHANGED <<reader_classes, default_validator, files, open_clients, call>>

\* the class registered for a scheme, "none" when there is none
class_for(classes, scheme) ==
    IF scheme \in DOMAIN classes THEN classes[scheme] ELSE "none"

\* the network answers only a request that is sent
NetFor(cls, location) ==
    IF cls = "HttpContentFetcher" /\ on_network(location) THEN NetOutcomes ELSE {NoNet}

\* the call has ended with result
Ended(op, r, location, validator, net, result) ==
    /\ call' = Call(op, r, location, validator, net, result)
    /\ open_clients' = open_clients + left_open(result.trace)
    /\ UNCHANGED server_vars
    /\ UNCHANGED previous
    /\ UNCHANGED <<reader_classes, fetcher_classes, default_validator, files,
                   registrations>>

\* a faulty variant: the call is served from the files as they were at the start
LoadFrom_from_start(r, file_location, validator) ==
    /\ Idle
    /\ Ended("load_from", r, file_location, validator, NoNet,
             load_from(Self(r), InitialFiles, file_location, validator, NoNet))

LoadFrom(r, file_location, validator) ==
    /\ Idle
    /\ \E net \in NetFor(class_for(fetcher_classes[r],
                                  scheme_of(fetcher_classes[r], urlparse(file_location))),
                        file_location) :
          Ended("load_from", r, file_location, validator, net,
                load_from(Self(r), files, file_location, validator, net))

\* the caller has the result (the value, or the exception that propagated)
Returned ==
    /\ ~Idle
    /\ call' = NoCall
    /\ UNCHANGED server_vars
    /\ UNCHANGED previous
    /\ UNCHANGED <<reader_classes, fetcher_classes, default_validator, files,
                   open_clients, registrations>>

\* a fetcher used on its own, as tests/unit/io/test_fetchers.py does
FileFetch(location) ==
    /\ Idle
    /\ Ended("fetch", "none", location, None, NoNet,
             fetch("FileContentFetcher", files, location, NoNet))

\* a reader used on its own, as tests/unit/io/test_readers.py does
ReadTexts(cls) ==
    {T_CFG_JSON, T_CFG_YAML, T_BROKEN, T_EMPTY}
        \cup (IF cls = "JsonReader" THEN {T_DEEP} ELSE {})

ReadContent(cls, content) ==
    /\ Idle
    /\ Ended("read_content", "none", <<>>, None, NoNet, read_content(cls, content))

HttpFetch(location) ==
    /\ Idle
    /\ \E net \in NetFor("HttpContentFetcher", location) :
          Ended("fetch", "none", location, None, net,
                fetch("HttpContentFetcher", files, location, net))

\* the files change between calls: Path.write_text, Path.mkdir, Path.unlink
WrittenPaths == {loc_m_json, loc_d_json}
WrittenTexts == {T_CFG_JSON, T_ROUTES_JSON, T_BROKEN}

WriteText(path, text) ==
    /\ Idle
    /\ ~(path \in DOMAIN files /\ files[path].type = "dir")
    /\ files' = (path :> File(text)) @@ files
    /\ UNCHANGED server_vars
    /\ UNCHANGED previous
    /\ UNCHANGED <<reader_classes, fetcher_classes, default_validator,
                   open_clients, registrations, call>>

Mkdir(path) ==
    /\ Idle
    /\ path \notin DOMAIN files
    /\ files' = (path :> Dir) @@ files
    /\ UNCHANGED server_vars
    /\ UNCHANGED previous
    /\ UNCHANGED <<reader_classes, fetcher_classes, default_validator,
                   open_clients, registrations, call>>

Remove(path) ==
    /\ Idle
    /\ path \in DOMAIN files
    /\ files' = [p \in DOMAIN files \ {path} |-> files[p]]
    /\ UNCHANGED server_vars
    /\ UNCHANGED previous
    /\ UNCHANGED <<reader_classes, fetcher_classes, default_validator,
                   open_clients, registrations, call>>

Next ==
    \/ \E r \in Readers, e \in RegExtensions, c \in ReaderTypes : RegisterReader(r, e, c)
    \/ \E r \in Readers, s \in RegSchemes, c \in FetcherTypes : RegisterFetcher(r, s, c)
    \/ \E r \in Readers, l \in Locations, v \in {None} \cup Validators : LoadFrom(r, l, v)
    \/ Returned

Spec == Init /\ [][Next]_vars

\* the fetchers alone, over files that change
NextFetch ==
    \/ \E l \in Locations : FileFetch(l)
    \/ \E l \in Locations : HttpFetch(l)
    \/ \E c \in {"JsonReader", "YamlReader"} : \E t \in ReadTexts(c) : ReadContent(c, t)
    \/ \E p \in WrittenPaths, t \in WrittenTexts : WriteText(p, t)
    \/ \E p \in WrittenPaths : Mkdir(p)
    \/ \E p \in WrittenPaths : Remove(p)
    \/ Returned

SpecFetch == Init /\ [][NextFetch]_vars

\* the caller has the result, and the call is kept to compare the next one with
ReturnedKept ==
    /\ ~Idle
    /\ previous' = call
    /\ call' = NoCall
    /\ UNCHANGED server_vars
    /\ UNCHANGED <<reader_classes, fetcher_classes, default_validator, files,
                   open_clients, registrations>>

\* load_from called again and again on files that change between the calls
ReloadLocations == WrittenPaths \cup {loc_s_json}

NextReload ==
    \/ \E r \in Readers, l \in ReloadLocations : LoadFrom(r, l, None)
    \/ \E p \in WrittenPaths, t \in WrittenTexts : WriteText(p, t)
    \/ \E p \in WrittenPaths : Mkdir(p)
    \/ \E p \in WrittenPaths : Remove(p)
    \/ ReturnedKept

SpecReload == Init /\ [][NextReload]_vars

\* MCPConfiguration built from route maps given item by item
MaxItems == 2

RouteMapItems ==
    {RouteMapObject("TOOL", TagSet({E_A}), NoTags),
     Dict(PyStr("TOOL"), NoTags, NoTags, FALSE),
     Dict(PyStr("EXCLUDE"), TagList(<<E_A, E_B>>), NoTags, FALSE),
     Dict(PyStr("RESOURCE"), NoTags, TagList(<<E_B, E_B>>), FALSE),
     Dict(MCPTypeMember("EXCLUDE"), TagSet({E_B}), NoTags, FALSE),
     Dict(PyStr("NOPE"), TagList(<<E_A>>), NoTags, FALSE),
     Dict(PyStr("tool"), NoTags, NoTags, FALSE),
     Dict(PyStr("TOOL"), NoTags, NoTags, TRUE),
     Dict(PyStr("TOOL"), TagList(<<E_LIST>>), TagList(<<E_A>>), FALSE),
     Other("int"),
     Other("str")}

ItemLists == UNION {[1..n -> RouteMapItems] : n \in 0..MaxItems}

RouteMapsInputs ==
    {RouteMapsAbsent, RouteMapsNone} \cup {RouteMapsList(l) : l \in ItemLists}

\* the call that has just ended, with its argument as it was passed (arg) and
\* as the call left it (after)
ConfigCall(op, v, outcome) ==
    [op |-> op, arg |-> v, after |-> outcome.after, status |-> outcome.status,
     value |-> outcome.value, error |-> outcome.error]

\* MCPConfiguration(route_maps=v), as tests/unit/core/test_config.py does
Construct(v) ==
    /\ Idle
    /\ call' = ConfigCall("MCPConfiguration", v, MCPConfiguration_init(v))
    /\ UNCHANGED server_vars
    /\ UNCHANGED previous
    /\ UNCHANGED <<reader_classes, fetcher_classes, default_validator, files,
                   open_clients, registrations>>

\* PydanticValidator(MCPConfiguration).validate({'route_maps': v})
Validate(v) ==
    /\ Idle
    /\ call' = ConfigCall("validate", v, PydanticValidator_validate_of(v))
    /\ UNCHANGED server_vars
    /\ UNCHANGED previous
    /\ UNCHANGED <<reader_classes, fetcher_classes, default_validator, files,
                   open_clients, registrations>>

NextConfig ==
    \/ \E v \in RouteMapsInputs : Construct(v)
    \/ \E v \in RouteMapsInputs \ {RouteMapsAbsent} : Validate(v)
    \/ Returned

SpecConfig == Init /\ [][NextConfig]_vars

\* load_from called with absolute paths and with their file URLs, on files
\* that are written and removed between the calls
AbsolutePaths == {loc_abs_json, loc_abs_xyz}
FileUrlLocations == AbsolutePaths \cup {file_url(p) : p \in AbsolutePaths}

NextFileUrl ==
    \/ \E r \in Readers, l \in FileUrlLocations, v \in {None} \cup Validators :
           LoadFrom(r, l, v)
    \/ \E p \in AbsolutePaths, t \in WrittenTexts : WriteText(p, t)
    \/ \E p \in AbsolutePaths : Remove(p)
    \/ Returned

SpecFileUrl == Init /\ [][NextFileUrl]_vars

InitServer ==
    /\ reader_classes = [r \in Readers |-> default_reader_classes]
    /\ fetcher_classes = [r \in Readers |-> default_fetcher_classes]
    /\ default_validator = [r \in Readers |-> init_default_validator(constructed_with[r])]
    /\ files = InitialFiles
    /\ open_clients = 0
    /\ registrations = 0
    /\ call = NoCall
    /\ previous = NoCall
    /\ environ \in InitialEnvironments
    /\ settings_cache = NoSettings
    /\ instances = 0
    /\ env_changes = 0
    /\ proc = NoProc

\* one call at a time: the process is single-threaded
ProcIdle == proc.op = "none"

\* os.environ[key] = value, or del os.environ[key], between two calls
SetEnv(key, value) ==
    /\ ProcIdle
    /\ env_changes < MaxEnvChanges
    /\ environ[key] # value
    /\ environ' = [environ EXCEPT ![key] = value]
    /\ env_changes' = env_changes + 1
    /\ UNCHANGED <<settings_cache, instances, proc>>
    /\ UNCHANGED io_vars

\* the call has ended with result, which carries the cache it leaves
EndedCached(op, input, result) ==
    /\ proc' = Proc(op, input, result)
    /\ settings_cache' = result.cache
    /\ instances' = IF result.cache.id > instances THEN result.cache.id ELSE instances

GetAppSettings ==
    /\ ProcIdle
    /\ settings_cache.id # 0 \/ instances < MaxInstances
    /\ EndedCached("get_app_settings", "none",
                   get_app_settings(settings_cache, environ, instances + 1))
    /\ UNCHANGED <<environ, env_changes>>
    /\ UNCHANGED io_vars

\* get_app_settings.cache_clear()
CacheClear ==
    /\ ProcIdle
    /\ settings_cache.id # 0
    /\ settings_cache' = NoSettings
    /\ UNCHANGED <<environ, instances, env_changes, proc>>
    /\ UNCHANGED io_vars

FromConfig(config) ==
    /\ ProcIdle
    /\ proc' = Proc("from_config", config, XrayClient_from_config(config))
    /\ UNCHANGED <<environ, settings_cache, instances, env_changes>>
    /\ UNCHANGED io_vars

\* create_mcp() called on its own
CreateMcp ==
    /\ ProcIdle
    /\ settings_cache.id # 0 \/ instances < MaxInstances
    /\ EndedCached("create_mcp", "none",
                   create_mcp(settings_cache, environ, instances + 1, files))
    /\ UNCHANGED <<environ, env_changes>>
    /\ UNCHANGED io_vars

\* the process has run main and exited; it leaves the environment it wrote
MainEnded(input, result) ==
    /\ EndedCached("main", input, result)
    /\ environ' = result.environ

\* main() run as a fresh process
Main(cmd, outcome) ==
    /\ ProcIdle
    /\ settings_cache.id = 0
    /\ instances = 0
    /\ MainEnded([cmd |-> cmd, outcome |-> outcome, environ |-> environ],
                 main(cmd, environ, settings_cache, instances + 1, files, outcome))
    /\ UNCHANGED env_changes
    /\ UNCHANGED io_vars

\* the caller has the result; after main the process is gone
Done ==
    /\ ~ProcIdle
    /\ proc.op # "main"
    /\ proc' = NoProc
    /\ UNCHANGED <<environ, settings_cache, instances, env_changes>>
    /\ UNCHANGED io_vars

NextServer ==
    \/ \E key \in EnvVars : \E value \in EnvValues(key) : SetEnv(key, Some(value))
    \/ \E key \in EnvVars : SetEnv(key, Unset(key))
    \/ GetAppSettings
    \/ CacheClear
    \/ \E config \in Configs : FromConfig(config)
    \/ CreateMcp
    \/ \E cmd \in CommandLines : \E outcome \in RunOutcomes : Main(cmd, outcome)
    \/ Done

SpecServer == InitServer /\ [][NextServer]_vars

\* =============================================================== claims
\* what the claims read off a call
LoadCall == call.op = "load_from"
FetchCall == call.op = "fetch"
Raised(kind) == call.status = "raised" /\ call.error.kind = kind

is_new(e) == e.ev = "new"
is_fetch(e) == e.ev = "fetch"
is_validate(e) == e.ev = "validate"
is_get(e) == e.ev = "get"
is_open(e) == e.ev = "client_open"
is_close(e) == e.ev = "client_close"

\* the URL scheme of the call's location, and the path load_from inspects
CallScheme == urlparse(call.location).scheme
CallPath == IF CallScheme # <<>> THEN urlparse(call.location).path ELSE call.location

\* the call's location names an existing regular file
CallFileExists ==
    /\ Path(call.location) \in DOMAIN files
    /\ files[Path(call.location)].type = "file"

C2_NamesExtensionAsWritten ==
    (/\ LoadCall
     /\ CallScheme = <<>>
     /\ lower(suffix(call.location)) \notin DOMAIN reader_classes[call.reader])
        => /\ Raised("UnsupportedExtensionError")
           /\ call.error.args = <<suffix(call.location)>>

\* C2 as amended: load_from raises UnsupportedExtensionError exactly when the
\* lower-cased suffix of the inspected path (no suffix included) has no
\* registered reader, and the message names that lower-cased suffix.
C2_NamesLowerCasedExtension ==
    LoadCall =>
        /\ Raised("UnsupportedExtensionError")
               <=> lower(suffix(CallPath)) \notin DOMAIN reader_classes[call.reader]
        /\ Raised("UnsupportedExtensionError") =>
            /\ call.error.prefix = "No reader registered for extension: "
            /\ call.error.args = <<lower(suffix(CallPath))>>
        /\ (call.location = loc_a_XYZ /\ Raised("UnsupportedExtensionError"))
               => call.error.args = <<ext_xyz>>
        /\ call.location = loc_noext
               => Raised("UnsupportedExtensionError") /\ call.error.args = << <<>> >>

C2_Witness ==
    /\ LoadCall
    /\ call.location = loc_a_XYZ
    /\ Raised("UnsupportedExtensionError")
    /\ call.error.args = <<ext_xyz>>

\* ------------------------------------------------------------------- C3
\* s ends with t
ends_with(s, t) == Len(s) >= Len(t) /\ SubSeq(s, Len(s) - Len(t) + 1, Len(s)) = t

\* the reader a default DataReader registers for the extension a path ends in
ReaderForEnding(path) ==
    IF ends_with(path, ext_json) THEN "JsonReader"
    ELSE IF ends_with(path, ext_yaml) \/ ends_with(path, ext_yml) THEN "YamlReader"
    ELSE "none"

\* the file's content parsed directly with that reader
ParsedDirectly(path) == read_content(ReaderForEnding(path), files[Path(path)].text)

\* C3: on a default DataReader, load_from of an existing regular file whose
\* path ends in .json, .yaml or .yml and whose content is well-formed for that
\* format returns the value the reader for that extension parses the content
\* to, whatever characters (':', '?', '#') the path contains.
C3_LocalFileLoads ==
    (/\ LoadCall
     /\ reader_classes[call.reader] = default_reader_classes
     /\ fetcher_classes[call.reader] = default_fetcher_classes
     /\ default_validator[call.reader] = "NoOpValidator"
     /\ call.validator = None
     /\ CallFileExists
     /\ ReaderForEnding(call.location) # "none"
     /\ ParsedDirectly(call.location).status = "returned")
        => /\ call.status = "returned"
           /\ call.value = ParsedDirectly(call.location).value

\* ------------------------------------------------------------------- C4
\* the classes a call, or load_from of another location by the same instance
\* in the same state, instantiates
Instantiated(trace) == SelectSeq(trace, is_new)

InstantiatedFor(location) ==
    Instantiated(load_from(Self(call.reader), files, location, call.validator,
                           call.net).trace)

\* C4: dispatch is case-insensitive.  Every registry key is lower-case
\* whatever case it was registered in, and two locations that differ only in
\* letter case are dispatched to the same fetcher class and reader class; a
\* reader registered as ".JSON" serves both "s.json" and "s.JSON".
C4_DispatchIgnoresCase ==
    /\ \A r \in Readers :
        /\ \A k \in DOMAIN reader_classes[r] : lower(k) = k
        /\ \A k \in DOMAIN fetcher_classes[r] : lower(k) = k
    /\ LoadCall =>
        /\ \A l \in Locations :
               lower(l) = lower(call.location)
                   => InstantiatedFor(l) = Instantiated(call.trace)
        /\ call.location \in {loc_s_json, loc_s_JSON} =>
               /\ Len(call.trace) >= 2
               /\ call.trace[2] = Ev("new", reader_classes[call.reader][ext_json], <<>>)

C4_Witness ==
    /\ LoadCall
    /\ call.location = loc_s_JSON
    /\ reader_classes[call.reader][ext_json] = "CustomReader"
    /\ call.status = "returned"
    /\ call.value = V_CUSTOM

\* ------------------------------------------------------------------- C5
\* the validator a call is to use: the one passed, else the one the instance
\* was constructed with, else the no-op validator
ExpectedValidator ==
    IF call.validator # None THEN call.validator
    ELSE IF constructed_with[call.reader] # None THEN constructed_with[call.reader]
    ELSE "NoOpValidator"

\* the value the call's reader parsed
ParsedByCall ==
    LET e == CHOOSE e \in {call.trace[i] : i \in 1..Len(call.trace)} :
                 e.ev = "read_content"
    IN  CASE e.cls = "JsonReader" -> json_loads(e.arg[1])
          [] e.cls = "YamlReader" -> yaml_safe_load(e.arg[1])
          [] OTHER -> V_CUSTOM

FailureClasses ==
    {"unsupported-scheme", "unsupported-extension", "not-found", "connection",
     "content-parse", "validation"}

FailureClass ==
    LET last_ev == call.trace[Len(call.trace)].ev
        fetcher == call.trace[1].cls
    IN  IF call.trace = <<>> THEN "unsupported-scheme"
        ELSE IF Len(call.trace) = 1 THEN "unsupported-extension"
        ELSE IF last_ev = "validate" THEN "validation"
        ELSE IF last_ev = "read_content" THEN "content-parse"
        ELSE IF fetcher = "FileContentFetcher" THEN "not-found"
        ELSE "connection"

\* the error kinds the code raises for a failure class
KindsOf(class) ==
    CASE class = "unsupported-scheme" ->
             {create_fetcher(default_fetcher_classes, s_ftp).error.kind}
      [] class = "unsupported-extension" ->
             {create_reader(default_reader_classes, ext_xyz).error.kind}
      [] class = "not-found" ->
             {FileContentFetcher_fetch(InitialFiles, loc_m_json).error.kind}
      [] class = "connection" ->
             {HttpContentFetcher_fetch(loc_http, n).error.kind :
                  n \in {n \in NetOutcomes : n.kind # "response" \/ n.status # 200}}
                 \cup {HttpContentFetcher_fetch(loc_http_badport, NoNet).error.kind}
      [] class = "content-parse" ->
             {JsonReader_read_content(T_BROKEN).error.kind,
              YamlReader_read_content(T_BROKEN).error.kind}
      [] class = "validation" ->
             {PydanticValidator_validate(V_BADCFG).error.kind}

FetchBy(cls) == FetchCall /\ call.trace[1].cls = cls

\* C8 as claimed: HttpContentFetcher.fetch returns the body text of a
\* success response, and for every other outcome (a non-success status, a
\* connection failure, a timeout, a malformed or unusable URL) raises
\* ConnectionError with "Failed to fetch from " and the location in the
\* message and the original error as its cause; no other kind escapes.
C8_EveryFailureIsConnectionError ==
    FetchBy("HttpContentFetcher") =>
        \/ /\ call.status = "returned"
           /\ call.net.kind = "response"
           /\ call.net.status \in 200..299
           /\ call.value = call.net.body
        \/ /\ Raised("ConnectionError")
           /\ call.error.prefix = "Failed to fetch from "
           /\ call.error.args = <<call.location>>
           /\ call.error.cause \in httpx_HTTPError

\* ------------------------------------------------------------------- C9
\* C9: each HttpContentFetcher.fetch call creates one client, calls get once
\* with the location given, whatever the outcome, and closes the client
\* before it returns or raises; between calls no client is open.
C9_OneClientOneGetReleased ==
    /\ open_clients = 0
    /\ FetchBy("HttpContentFetcher") =>
           Tail(call.trace) =
               <<Ev("client_open", "httpx.Client", <<>>),
                 Ev("get", "httpx.Client", call.location),
                 Ev("client_close", "httpx.Client", <<>>)>>

C9_Witness ==
    /\ FetchBy("HttpContentFetcher")
    /\ Raised("ConnectionError")
    /\ call.error.cause = "ConnectTimeout"
    /\ Len(SelectSeq(call.trace, is_get)) = 1
    /\ Len(SelectSeq(call.trace, is_close)) = 1
    /\ open_clients = 0

\* ------------------------------------------------------------------ C10
\* C10: FileContentFetcher.fetch raises FileNotFoundError, with the location
\* in its message, exactly when the location is not the path of an existing
\* regular file (a directory counts as missing), and otherwise returns the
\* text of that file.
C10_NotFoundIffNoRegularFile ==
    FetchBy("FileContentFetcher") =>
        IF CallFileExists
        THEN /\ call.status = "returned"
             /\ call.value = files[Path(call.location)].text
        ELSE /\ Raised("FileNotFoundError")
             /\ call.error.prefix = "File does not exist: "
             /\ call.error.args = <<call.location>>

C10_Witness ==
    /\ FetchBy("FileContentFetcher")
    /\ call.location = loc_d_json
    /\ loc_d_json \in DOMAIN files
    /\ files[loc_d_json].type = "dir"
    /\ Raised("FileNotFoundError")

\* ------------------------------------------------------------------ C11
\* the call ended in the validate step of a validator of class cls, and the
\* value that validator was given
ValidatedBy(cls) ==
    /\ LoadCall
    /\ call.trace # <<>>
    /\ call.trace[Len(call.trace)].ev = "validate"
    /\ call.trace[Len(call.trace)].cls = cls

ValidatedData == call.trace[Len(call.trace)].arg[1]

\* the parsed values that satisfy the schema of MCPConfiguration
SatisfySchema == {V_CFG, V_EXTRA, V_ROUTES, V_NOROUTES, V_CUSTOM}

\* the fields of MCPConfiguration
ModelFields == {"mcp_names", "route_maps"}

\* what C11 says of a value that does not satisfy the schema: a ValueError
\* that starts 'Pydantic validation failed' and embeds the underlying error
FailsAsValueError ==
    /\ Raised("ValueError")
    /\ call.error.prefix = "Pydantic validation failed: "
    /\ call.error.cause \in {"ValidationError", "TypeError"}

\* C11 as claimed: PydanticValidator.validate returns, for a value that
\* satisfies the schema, an instance whose fields equal the input's fields
\* (fields the model does not declare ignored), and fails for every other
\* value with the ValueError above, whatever the model's validation raised.
C11_FieldsEqualInput ==
    ValidatedBy("PydanticValidator") =>
        IF ValidatedData \in SatisfySchema
        THEN /\ call.status = "returned"
             /\ \A f \in ModelFields :
                    instance_field(call.value, f) = input_field(ValidatedData, f)
        ELSE FailsAsValueError

\* C11 as amended: the instance's fields are the input's fields converted to
\* the declared types: mcp_names equals the input's, the entries of route_maps
\* given as mappings are RouteMap objects built from them, a field the input
\* lacks has its default None, and undeclared fields are ignored; every other
\* value fails with the ValueError above, for pydantic's ValidationError and
\* for any other exception of the model's validators alike.
C11_FieldsConvertedFromInput ==
    ValidatedBy("PydanticValidator") =>
        IF ValidatedData \in SatisfySchema
        THEN /\ call.status = "returned"
             /\ call.value \in {M_CFG, M_EMPTY, M_ROUTES, M_NOROUTES}
             /\ instance_field(call.value, "mcp_names")
                    = input_field(ValidatedData, "mcp_names")
             /\ instance_field(call.value, "route_maps")
                    = (IF input_field(ValidatedData, "route_maps") = R_DICTS
                       THEN R_BUILT ELSE input_field(ValidatedData, "route_maps"))
        ELSE /\ FailsAsValueError
             /\ call.error.cause
                    = (IF ValidatedData = V_BADCFG THEN "TypeError" ELSE "ValidationError")

C11_Witness ==
    /\ ValidatedBy("PydanticValidator")
    /\ ValidatedData = V_BADCFG
    /\ Raised("ValueError")
    /\ call.error.cause = "TypeError"

\* ------------------------------------------------------------------ C12
\* registry new is registry old with the entry of key set to class and every
\* other entry as it was
OneEntrySet(old, new, key, class) ==
    /\ DOMAIN new = DOMAIN old \cup {key}
    /\ new[key] = class
    /\ \A k \in DOMAIN old \ {key} : new[k] = old[k]

\* one registration call on instance r, by the registries before and after
RegisteredOn(r) ==
    /\ \A o \in Readers \ {r} :
           /\ reader_classes'[o] = reader_classes[o]
           /\ fetcher_classes'[o] = fetcher_classes[o]
    /\ \/ /\ fetcher_classes'[r] = fetcher_classes[r]
          /\ \E e \in RegExtensions, c \in ReaderTypes :
                 OneEntrySet(reader_classes[r], reader_classes'[r], lower(e), c)
       \/ /\ reader_classes'[r] = reader_classes[r]
          /\ \E s \in RegSchemes, c \in FetcherTypes :
                 OneEntrySet(fetcher_classes[r], fetcher_classes'[r], lower(s), c)

\* C12: the registries change only in a registration call, which sets exactly
\* the entry of the lower-cased key in one registry of the instance it is
\* called on and leaves every other entry, the other registry and the other
\* instances' registries as they were; a load_from call, returning or
\* raising, changes no registry.
C12_RegistriesChangeOnlyByRegistration ==
    [][/\ registrations' = registrations
           => UNCHANGED <<reader_classes, fetcher_classes>>
       /\ registrations' # registrations => \E r \in Readers : RegisteredOn(r)
       /\ call' # call => UNCHANGED <<reader_classes, fetcher_classes>>]_vars

C12_Witness ==
    /\ LoadCall
    /\ call.reader = "r1"
    /\ call.status = "raised"
    /\ registrations = 1
    /\ reader_classes["r1"] = (ext_json :> "CustomReader") @@ default_reader_classes
    /\ reader_classes["r2"] = default_reader_classes
    /\ fetcher_classes["r1"] = default_fetcher_classes

\* ------------------------------------------------------------------ C13
\* a get_app_settings call returns in this step
SettingsReturned ==
    /\ proc.op = "none"
    /\ proc'.op = "get_app_settings"
    /\ proc'.status = "returned"

\* instance s holds what the environment env gives
ReadFrom(s, env) ==
    /\ s.personal_token = env["XRAY_PERSONAL_TOKEN"]
    /\ s.openapi_spec = env["XRAY_OPENAPI_SPEC"].value
    /\ s.config_file = env["XRAY_CONFIG_FILE"]
    /\ s.url \in {env["XRAY_URL"].value, "https://xray.example.com/"}
    /\ s.read_only = (env["XRAY_READ_ONLY"].set /\ env["XRAY_READ_ONLY"].value = "true")
    /\ s.auth_type = "pat"

\* C13: while the cache holds an instance, get_app_settings returns that very
\* instance and leaves it cached, whatever the environment has become; the
\* cache is emptied only by cache_clear and is filled only by a call that
\* finds it empty, which builds a new instance from the environment as it is
\* at that moment and returns it; changing the environment changes no cache.
C13_SameInstanceUntilCleared ==
    [][/\ (SettingsReturned /\ settings_cache.id # 0)
           => proc'.value = settings_cache /\ settings_cache' = settings_cache
       /\ (SettingsReturned /\ settings_cache.id = 0)
           => /\ proc'.value.id = instances + 1
              /\ ReadFrom(proc'.value, environ)
              /\ settings_cache' = proc'.value
       /\ environ' # environ /\ proc' = proc => settings_cache' = settings_cache
       /\ settings_cache'.id # settings_cache.id
           => \/ settings_cache'.id = 0 /\ proc' = proc /\ environ' = environ
              \/ settings_cache.id = 0 /\ settings_cache'.id = instances + 1]_vars

\* a call returned the cached instance although the environment now holds
\* another token than the instance
C13_Witness ==
    /\ proc.op = "get_app_settings"
    /\ proc.status = "returned"
    /\ proc.trace = <<>>
    /\ proc.value.id = 1
    /\ proc.value.personal_token = Some(TOKEN)
    /\ environ["XRAY_PERSONAL_TOKEN"] = Some("")

\* ------------------------------------------------------------------ C14
\* the HTTP clients a call constructed
is_client(e) == e.ev = "AsyncClient"
ClientsBuilt == SelectSeq(proc.trace, is_client)

FromConfigCall == proc.op = "from_config"

TokenRequired ==
    /\ proc.status = "raised"
    /\ proc.error.kind = "ValueError"
    /\ proc.error.prefix = "Personal Access Token is required for Xray API."
    /\ ClientsBuilt = <<>>

UnsupportedAuthType ==
    /\ proc.status = "raised"
    /\ proc.error.kind = "ValueError"
    /\ proc.error.prefix = "Unsupported authentication type: "
    /\ proc.error.args = <<proc.input.auth_type>>
    /\ ClientsBuilt = <<>>

\* exactly one client, with the Bearer and JSON headers, the configured base
\* URL and the configured timeout
OneClientBuilt ==
    /\ proc.status = "returned"
    /\ Len(ClientsBuilt) = 1
    /\ ClientsBuilt[1].arg = proc.value
    /\ proc.value.headers.Authorization = <<"Bearer ", proc.input.personal_token.value>>
    /\ proc.value.headers.ContentType = "application/json"
    /\ proc.value.base_url = proc.input.url
    /\ proc.value.timeout = proc.input.timeout

TokenMissing == ~proc.input.personal_token.set \/ proc.input.personal_token.value = ""

\* C14 as claimed: from_config fails with the token error whenever the token
\* is absent or empty, with the authentication-type error whenever the type is
\* not 'pat', in both cases without constructing a client, and constructs
\* exactly one client, configured as above, only when both checks pass.
C14_TokenErrorWheneverTokenMissing ==
    FromConfigCall =>
        /\ TokenMissing => TokenRequired
        /\ proc.input.auth_type # "pat" => UnsupportedAuthType
        /\ (~TokenMissing /\ proc.input.auth_type = "pat") => OneClientBuilt
        /\ proc.status = "returned" => (~TokenMissing /\ proc.input.auth_type = "pat")

\* C14 as amended: the authentication type is checked first: whenever it is
\* not 'pat' the call fails with the authentication-type error, whatever the
\* token; with type 'pat' and an absent or empty token it fails with the token
\* error; neither failure constructs a client, and only when both checks pass
\* is exactly one client constructed, configured as above.
C14_AuthTypeCheckedFirst ==
    FromConfigCall =>
        /\ proc.input.auth_type # "pat" => UnsupportedAuthType
        /\ (proc.input.auth_type = "pat" /\ TokenMissing) => TokenRequired
        /\ (~TokenMissing /\ proc.input.auth_type = "pat") => OneClientBuilt
        /\ proc.status = "returned" => (~TokenMissing /\ proc.input.auth_type = "pat")

C14_Witness ==
    /\ FromConfigCall
    /\ proc.input.auth_type = "oauth"
    /\ ~proc.input.personal_token.set
    /\ UnsupportedAuthType

\* ------------------------------------------------------------------ C15
CreateMcpCall == proc.op = "create_mcp"
CreateMcpReturned == CreateMcpCall /\ proc.status = "returned"

\* the route_maps the configuration file of the settings supplies: the built
\* rules of r.json, the empty list of o.json, None without a file or a key
ConfigFileText ==
    IF settings_cache.config_file.set /\ settings_cache.config_file.value \in DOMAIN files
    THEN files[settings_cache.config_file.value].text
    ELSE ""

ConfiguredRules ==
    CASE ConfigFileText = T_ROUTES_JSON -> R_BUILT
      [] ConfigFileText = T_NOROUTES_JSON -> R_EMPTY
      [] OTHER -> None

\* C15: the rules create_mcp hands to FastMCP.from_openapi are the
\* configuration's route_maps, unchanged, whenever that list is non-empty,
\* whatever the read-only flag; otherwise, with read-only set, exactly one
\* rule, which excludes POST, PUT and DELETE; otherwise the configuration's
\* own value, which holds no rule (None, or the empty list).
C15_RouteRulesByPrecedence ==
    CreateMcpReturned =>
        IF ConfiguredRules = R_BUILT
        THEN proc.value.route_maps = R_BUILT
        ELSE IF settings_cache.read_only
        THEN /\ proc.value.route_maps = R_READ_ONLY
             /\ route_rules(proc.value.route_maps)
                    = <<RouteMap({"POST", "PUT", "DELETE"}, "EXCLUDE")>>
        ELSE /\ proc.value.route_maps = ConfiguredRules
             /\ route_rules(proc.value.route_maps) = <<>>

C15_Witness ==
    /\ CreateMcpReturned
    /\ settings_cache.read_only
    /\ ConfiguredRules = R_BUILT
    /\ proc.value.route_maps = R_BUILT

\* ------------------------------------------------------------------ C16
\* the HTTP methods that modify
ModifyingMethods == {"POST", "PUT", "PATCH", "DELETE"}

\* what the framework makes of an operation with the given method: the type of
\* the first rule that lists the method, a tool when no rule does
RECURSIVE route_type(_, _)
route_type(rules, method) ==
    IF rules = <<>> THEN "TOOL"
    ELSE IF method \in rules[1].methods THEN rules[1].mcp_type
    ELSE route_type(Tail(rules), method)

\* C16 as claimed: whenever create_mcp builds the server with the read-only
\* flag set, the rules it hands to the framework exclude every operation with
\* a modifying method (POST, PUT, PATCH, DELETE).
C16_ReadOnlyExcludesModifying ==
    (CreateMcpReturned /\ settings_cache.read_only) =>
        \A method \in ModifyingMethods :
            route_type(route_rules(proc.value.route_maps), method) = "EXCLUDE"

\* ------------------------------------------------------------------ C20
\* the positions in the call's steps at which something was done
StepsOf(ev) == {i \in 1..Len(proc.trace) : proc.trace[i].ev = ev}

\* the call was ended by a load_from that raised: the last load_from step is
\* not followed by the construction of the configuration or of the server
LoadFailed ==
    /\ CreateMcpCall
    /\ proc.status = "raised"
    /\ StepsOf("load_from") # {}

\* C20 as claimed: create_mcp reads the settings first, then loads the OpenAPI
\* spec and the optional configuration, builds the HTTP client only after both
\* loads, and the framework's server last; so no HTTP client has been built
\* when a load fails.
C20_ClientBuiltAfterLoads ==
    CreateMcpCall =>
        /\ proc.trace[1].ev = "get_app_settings"
        /\ \A c \in StepsOf("AsyncClient") : \A l \in StepsOf("load_from") : l < c
        /\ \A s \in StepsOf("from_openapi") :
               \A e \in StepsOf("AsyncClient") \cup StepsOf("load_from") : e < s
        /\ LoadFailed => ClientsBuilt = <<>>

\* ------------------------------------------------------------------ C17
MainCall == proc.op = "main"

\* main reached the transport loop
LoopRan == MainCall /\ StepsOf("run_async") # {}

\* main ended before the transport loop, on an error raised while the server
\* was being built, not on a command line click refused
BuildFailed == MainCall /\ ~LoopRan /\ proc.error.kind # "UsageError"

\* C17 as claimed: every error raised while the server is built and every
\* error of the transport loop other than an interrupt ends the process with
\* a non-zero exit status, and the exit status is 0 only when the transport
\* loop was ended by an interrupt.
C17_ZeroOnlyOnInterrupt ==
    MainCall =>
        /\ BuildFailed => proc.value # 0
        /\ (LoopRan /\ proc.input.outcome \in {"Exception", "SystemExit"}) => proc.value # 0
        /\ proc.value = 0 => (LoopRan /\ proc.input.outcome = "KeyboardInterrupt")

\* ------------------------------------------------------------------ C18
\* the keyword arguments main passed to run_async
RunArgs == proc.trace[CHOOSE i \in StepsOf("run_async") : TRUE].arg

\* the option was given on the command line
Given(option) == proc.input.cmd[option].set

\* the environment main was started in
EnvAtStart == proc.input.environ

HttpTransports == {"sse", "streamable-http"}

\* CLI option, else environment variable, else default, for each of the four;
\* transport names are taken without regard to case
ExpectedTransport ==
    IF Given("transport") THEN str_lower(proc.input.cmd.transport.value)
    ELSE IF EnvAtStart["TRANSPORT"].set
            /\ str_lower(EnvAtStart["TRANSPORT"].value) \in Transports
    THEN str_lower(EnvAtStart["TRANSPORT"].value)
    ELSE "stdio"

ExpectedHost ==
    IF Given("host") THEN proc.input.cmd.host.value
    ELSE IF EnvAtStart["HOST"].set THEN EnvAtStart["HOST"].value
    ELSE "0.0.0.0"

ExpectedPort ==
    IF Given("port") THEN IntTexts[proc.input.cmd.port.value]
    ELSE IF EnvAtStart["PORT"].set /\ EnvAtStart["PORT"].value \in DOMAIN IntTexts
    THEN IntTexts[EnvAtStart["PORT"].value]
    ELSE 8000

\* the path, or nothing: the framework then uses its own default
ExpectedPath ==
    IF Given("path") THEN Some(proc.input.cmd.path.value)
    ELSE IF EnvAtStart["STREAMABLE_HTTP_PATH"].set
    THEN Some(EnvAtStart["STREAMABLE_HTTP_PATH"].value)
    ELSE Nothing

XrayOptions ==
    {"xray_url", "xray_personal_token", "xray_openapi_spec", "config_file", "read_only"}

EnvVarOf(option) ==
    CASE option = "xray_url" -> "XRAY_URL"
      [] option = "xray_personal_token" -> "XRAY_PERSONAL_TOKEN"
      [] option = "xray_openapi_spec" -> "XRAY_OPENAPI_SPEC"
      [] option = "config_file" -> "XRAY_CONFIG_FILE"
      [] option = "read_only" -> "XRAY_READ_ONLY"

\* the text an option's value is written to the environment as
EnvTextOf(option) ==
    IF option = "read_only"
    THEN Some(IF proc.input.cmd.read_only.value THEN "true" ELSE "false")
    ELSE proc.input.cmd[option]

\* click refused the command line
Refused == MainCall /\ proc.error.kind = "UsageError"

\* every setting whose flag is omitted has its environment variable set, and
\* the flags that are given are in order
OmittedAreInEnvironment ==
    /\ MainCall
    /\ \A option \in {"xray_url", "xray_personal_token", "xray_openapi_spec"} :
           ~Given(option) => EnvAtStart[EnvVarOf(option)].set
    /\ ~Given("transport") /\ ~Given("port") /\ ~Given("config_file")

\* C19 as claimed: a flag that is given is written to its XRAY_ variable
\* before the settings are read, so the settings hold the flag's value; a flag
\* that is omitted leaves its variable as it was, and the server starts with
\* the variable's value.
C19_FlagsFallBackToEnvironment ==
    MainCall =>
        /\ settings_cache.id # 0 =>
               /\ \A option \in XrayOptions :
                      environ[EnvVarOf(option)]
                          = (IF Given(option) THEN EnvTextOf(option)
                             ELSE EnvAtStart[EnvVarOf(option)])
               /\ ReadFrom(settings_cache, environ)
        /\ OmittedAreInEnvironment => ~Refused

\* ------------------------------------------------------------------ C21
ReadCall == call.op = "read_content"
ReadBy(cls) == ReadCall /\ call.trace[1].cls = cls

\* the text the reader was given
ReadText == call.trace[1].arg[1]

\* the texts that are well-formed JSON, well-formed YAML
WellFormedJson == {T_CFG_JSON}
WellFormedYaml == {T_CFG_JSON, T_CFG_YAML, T_EMPTY}

\* the call failed with a ValueError that starts with prefix and embeds the
\* parser's error
InvalidContent(prefix) ==
    /\ Raised("ValueError")
    /\ call.error.prefix = prefix
    /\ call.error.cause # "none"

\* C21 as claimed: each reader returns the parsed value for well-formed text
\* and fails for every other text with a ValueError that starts 'Invalid JSON
\* content' respectively 'Invalid YAML content' and embeds the parser's error;
\* the empty text fails in the JSON reader and is the null value in the YAML
\* reader.
C21_MalformedIsValueError ==
    /\ ReadBy("JsonReader") =>
           IF ReadText \in WellFormedJson
           THEN call.status = "returned" /\ call.value = V_CFG
           ELSE InvalidContent("Invalid JSON content: ")
    /\ ReadBy("YamlReader") =>
           IF ReadText \in WellFormedYaml
           THEN /\ call.status = "returned"
                /\ call.value = (IF ReadText = T_EMPTY THEN V_NULL ELSE V_CFG)
           ELSE InvalidContent("Invalid YAML content: ")

\* ------------------------------------------------------------------ C22
\* the positions in the call's steps at which something was done
CallSteps(ev) == {i \in 1..Len(call.trace) : call.trace[i].ev = ev}

\* the steps of the stages: dispatch instantiates, fetch reads the file or
\* the network, parse and validate follow
DispatchSteps == CallSteps("new")
FetchSteps == CallSteps("fetch") \cup CallSteps("client_open") \cup CallSteps("get")
ParseSteps == CallSteps("read_content")
ValidateSteps == CallSteps("validate")

\* the stage the call's last step belongs to
LastStage ==
    IF call.trace = <<>> \/ Len(call.trace) \in DispatchSteps THEN "dispatch"
    ELSE IF Len(call.trace) \in ValidateSteps THEN "validate"
    ELSE IF Len(call.trace) \in ParseSteps THEN "parse"
    ELSE "fetch"

\* C22: in every load_from call the stages run in the order dispatch, fetch,
\* parse, validate, each at most once; a call that raised ran no stage after
\* the one that raised: after an unregistered extension no file was read and
\* no request sent, whether or not the file exists or the host answers, after
\* a failed fetch no reader ran, after a failed fetch or parse no validator.
\* A failure is not passed over: an unregistered extension always raises, and
\* a reader ran on a local path only when the file was there.
C22_StagesInOrderFailureEnds ==
    LoadCall =>
        /\ Cardinality(CallSteps("fetch")) <= 1
        /\ Cardinality(ParseSteps) <= 1
        /\ Cardinality(ValidateSteps) <= 1
        /\ \A d \in DispatchSteps : \A l \in FetchSteps \cup ParseSteps \cup ValidateSteps :
               d < l
        /\ \A f \in FetchSteps : \A l \in ParseSteps \cup ValidateSteps : f < l
        /\ \A p \in ParseSteps : \A v \in ValidateSteps : p < v
        /\ call.status = "returned" =>
               /\ Cardinality(CallSteps("fetch")) = 1
               /\ Cardinality(ParseSteps) = 1
               /\ Cardinality(ValidateSteps) = 1
        /\ call.status = "raised" =>
               /\ LastStage = "dispatch" => FetchSteps \cup ParseSteps \cup ValidateSteps = {}
               /\ LastStage = "fetch" => ParseSteps \cup ValidateSteps = {}
               /\ LastStage = "parse" => ValidateSteps = {}
        /\ lower(suffix(CallPath)) \notin DOMAIN reader_classes[call.reader] =>
               Raised("UnsupportedExtensionError")
        /\ ParseSteps # {} => call.trace[CHOOSE f \in CallSteps("fetch") : TRUE].cls
                                  \in {"HttpContentFetcher", "CustomFetcher"}
                              \/ CallFileExists
        /\ Raised("UnsupportedExtensionError") => LastStage = "dispatch"
        /\ (Raised("FileNotFoundError") \/ Raised("ConnectionError")) => LastStage = "fetch"

\* the extension of a file that does not exist is refused without a look at
\* the disk
C22_Witness ==
    /\ LoadCall
    /\ call.location = loc_a_XYZ
    /\ ~CallFileExists
    /\ Raised("UnsupportedExtensionError")
    /\ FetchSteps = {}

\* ------------------------------------------------------------------ C23
\* the strategy classes the call instantiated, in order
Instances == SelectSeq(call.trace, is_new)

\* C23 as claimed: load_from checks the extension and the scheme before it
\* instantiates any strategy: a call that fails with UnsupportedExtensionError
\* has constructed no fetcher, and a call that returns has constructed exactly
\* one fetcher and one reader of its own.
C23_NoInstanceBeforeChecks ==
    LoadCall =>
        /\ Raised("UnsupportedExtensionError") => Instances = <<>>
        /\ call.status = "returned" =>
               /\ Len(Instances) = 2
               /\ Instances[1].cls \in FetcherTypes
               /\ Instances[2].cls \in ReaderTypes

\* ------------------------------------------------------------------ C24
\* what the text of a file parses to, and what the instance's default
\* validator makes of the parsed value
ParsedOf(text) == IF text = T_CFG_JSON THEN V_CFG ELSE V_ROUTES

ValidatedOf(r, value) ==
    IF constructed_with[r] = None THEN value
    ELSE IF value = V_CFG THEN M_CFG
    ELSE M_ROUTES

\* the call before this one was made on the same instance with the same location
SameAsPrevious ==
    /\ LoadCall
    /\ previous.op = "load_from"
    /\ previous.reader = call.reader
    /\ previous.location = call.location

\* C24: every load_from call that gets past dispatch makes exactly one fetch,
\* of the location given, and its result is what the source holds at the time
\* of the call, whatever an earlier call with the same location returned: the
\* value of the file's present text, FileNotFoundError when the file is not
\* there (any more), the parse error when its present text is malformed.
C24_EachCallReadsTheSourceAnew ==
    (LoadCall /\ CallSteps("fetch") # {}) =>
        /\ Cardinality(CallSteps("fetch")) = 1
        /\ \A f \in CallSteps("fetch") : call.trace[f].arg = call.location
        /\ IF ~CallFileExists THEN Raised("FileNotFoundError")
           ELSE IF files[Path(call.location)].text \in {T_CFG_JSON, T_ROUTES_JSON}
           THEN /\ call.status = "returned"
                /\ call.value
                       = ValidatedOf(call.reader, ParsedOf(files[Path(call.location)].text))
           ELSE Raised("ValueError")

\* the second of two calls with the same location returns the new value of a
\* file that was rewritten in between
C24_Witness ==
    /\ SameAsPrevious
    /\ previous.status = "returned"
    /\ previous.value = V_CFG
    /\ call.status = "returned"
    /\ call.value = V_ROUTES

\* ------------------------------------------------------------------ C25
\* the extension the claim names: the lower-cased suffix of the URL's path
\* when the location has a scheme, of the whole location when it has none
NamedExtension == lower(suffix(CallPath))

\* the reader class the call instantiated, "none" when it got to none
ReaderChosen == IF Len(Instances) >= 2 THEN Instances[2].cls ELSE "none"

DefaultReaders == reader_classes[call.reader] = default_reader_classes

\* C25: the reader is the one registered for the lower-cased suffix of the
\* URL's path when the location has a scheme, registered or not, and of the
\* whole location when it has none, and the call fails with
\* UnsupportedExtensionError for that extension when none is registered; the
\* query and the fragment of a URL have no part in it; the fetcher is given
\* the location as it was passed.
C25_ExtensionFromPathOrWholeLocation ==
    LoadCall =>
        /\ IF NamedExtension \in DOMAIN reader_classes[call.reader]
           THEN ReaderChosen = reader_classes[call.reader][NamedExtension]
           ELSE /\ Raised("UnsupportedExtensionError")
                /\ call.error.args = <<NamedExtension>>
        /\ \A f \in CallSteps("fetch") : call.trace[f].arg = call.location
        /\ DefaultReaders =>
               /\ call.location \in {loc_https_query, loc_http_fragment}
                      => ReaderChosen = "YamlReader"
               /\ call.location \in {loc_ftp, loc_FTP, loc_hash, loc_colon}
                      => ReaderChosen = "JsonReader"
               /\ call.location = loc_colon_hash
                      => /\ Raised("UnsupportedExtensionError")
                         /\ call.error.args = <<(<<>>)>>

\* a URL whose query ends in .json is read as the YAML its path names
C25_Witness ==
    /\ LoadCall
    /\ call.location = loc_https_query
    /\ ReaderChosen = "YamlReader"
    /\ \E f \in CallSteps("fetch") : call.trace[f].arg = loc_https_query

\* ------------------------------------------------------------------ C26
ConstructCall == call.op = "MCPConfiguration"

\* the message of the exception has the text in it
Contains(error, text) ==
    error.prefix = text \/ \E i \in 1..Len(error.args) : error.args[i] = text

NamesNoMember(item) ==
    item.type = "dict" /\ item.mcp_type.type = "str" /\ item.mcp_type.v \notin MCPTypeNames

NoMapping(item) == item.type \notin {"RouteMap", "dict"}

\* a tags or mcp_tags list of the mapping has a member that cannot be hashed
Unhashable(item) ==
    item.type = "dict"
        /\ \E key \in {"tags", "mcp_tags"} :
               item[key].type = "list"
                   /\ \E i \in 1..Len(item[key].list) : item[key].list[i] = E_LIST

\* the mapping has a key that is no field of RouteMap
UnknownKey(item) == item.type = "dict" /\ item.extra

\* an item the claim says is accepted: a RouteMap, or a mapping whose
\* mcp_type, when a string, names a member
Accepted(item) ==
    item.type = "RouteMap" \/ (item.type = "dict" /\ ~NamesNoMember(item))

\* an item the code accepts
Built_from(item) == Accepted(item) /\ ~Unhashable(item) /\ ~UnknownKey(item)

\* the first item of the list that the claim, and that the code, refuses
FirstRefused(l) ==
    CHOOSE i \in 1..Len(l) : ~Accepted(l[i]) /\ \A j \in 1..(i - 1) : Accepted(l[j])

FirstNotBuilt(l) ==
    CHOOSE i \in 1..Len(l) : ~Built_from(l[i]) /\ \A j \in 1..(i - 1) : Built_from(l[j])

AsSet(tags) ==
    IF tags.type = "list"
    THEN TagSet({tags.list[i] : i \in 1..Len(tags.list)})
    ELSE tags

\* the RouteMap an accepted item stands for
RouteMapFor(item) ==
    IF item.type = "RouteMap" THEN item
    ELSE [type |-> "RouteMap", mcp_type |-> MCPTypeMember(item.mcp_type.v),
          tags |-> AsSet(item.tags), mcp_tags |-> AsSet(item.mcp_tags),
          extra |-> FALSE]

\* the value given is a list, and the construction returned the list of the
\* RouteMaps its items stand for, one for one and in the same order
SameLengthAndOrder ==
    /\ call.status = "returned"
    /\ call.value.type = "list"
    /\ Len(call.value.list) = Len(call.arg.list)
    /\ \A i \in 1..Len(call.arg.list) :
           call.value.list[i] = RouteMapFor(call.arg.list[i])

ValidateCall == call.op = "validate"

\* C28: PydanticValidator(MCPConfiguration).validate(d) leaves d as it was,
\* whether it returns or raises: every route_maps item still has the
\* mcp_type string and the tags and mcp_tags lists it had before the call.
C28_ValidationLeavesValueAlone ==
    ValidateCall => call.after = call.arg

\* ------------------------------------------------------------------ C27
\* the call's location is the file URL of an absolute path
FileUrlCall ==
    LoadCall /\ \E p \in AbsolutePaths : call.location = file_url(p)

\* the path the URL denotes
UrlPath == urlparse(call.location).path

\* what the same call with the plain path gives, on the files as they are
PathResult == load_from(Self(call.reader), files, UrlPath, call.validator, NoNet)

\* C27: for an existing local file with a registered extension, load_from of
\* 'file://' followed by the absolute path is served by the file fetcher and
\* ends as load_from of the absolute path does: the same value, or the same
\* kind of error.
C27_FileUrlIsThePlainPath ==
    (FileUrlCall /\ is_file(files, UrlPath)
        /\ lower(suffix(UrlPath)) \in DOMAIN reader_classes[call.reader]) =>
        /\ \E i \in 1..Len(call.trace) :
               is_fetch(call.trace[i]) /\ call.trace[i].cls = "FileContentFetcher"
        /\ call.status = PathResult.status
        /\ call.value = PathResult.value
        /\ call.error.kind = PathResult.error.kind

\* ------------------------------------------------------------------ C29
\* what mcp_xray.utils.readers.DataReader gives for the call: its instance
\* has the registries and the validator of the instance called, having seen
\* the same registrations, and reads the same files and the same responses
UtilsResult ==
    utils_load_from(Self(call.reader), files, call.location, call.validator, call.net)

\* C29: every load_from call ends in mcp_xray.io.readers.DataReader as it
\* ends in mcp_xray.utils.readers.DataReader after the same registrations
\* and on the same files and responses: the same value, or the same kind of
\* error, also for a location whose scheme is not registered.
C29_BothDataReadersAgree ==
    LoadCall =>
        /\ call.status = UtilsResult.status
        /\ call.value = UtilsResult.value
        /\ call.error.kind = UtilsResult.error.kind

\* ------------------------------------------------------------------ C30
\* the steps of main that built an HTTP client, and the later steps that
\* closed the client built at step i
ClientSteps == StepsOf("AsyncClient")

ClosesOf(i) ==
    {j \in (i + 1)..Len(proc.trace) : proc.trace[j] = XrayClient_close(proc.trace[i].arg)}

\* C30: when main has ended, by interrupt, by a failure of the transport loop
\* or by a failure of loading after the client was built, every HTTP client
\* XrayClient.from_config built has been closed by exactly one close call.
C30_EveryClientClosedOnce ==
    MainCall => \A i \in ClientSteps : Cardinality(ClosesOf(i)) = 1
====
